---------------------------- MODULE Spec2Model ----------------------------
(***************************************************************************)
(* The asset loading pipeline of LAppModel (src/lib/live2d/LAppModel.ts)   *)
(* together with the texture cache it requests its textures from           *)
(* (LAppTextureManager.ts).                                                *)
(*                                                                         *)
(* Every promise callback and every image 'load' listener of the source is *)
(* one action.  The synchronous call chain a callback runs (for instance   *)
(* loadCubismPhysics -> loadCubismPose -> setupEyeBlink -> ...) is part of *)
(* that action: each method of the source is an operator from a world      *)
(* record w (the model instance w.m, the Image elements waiting for their  *)
(* decode w.images, the texture cache w.tm, the GL texture counter w.gl    *)
(* and the history w.h) to the world after the call.                       *)
(*                                                                         *)
(* Nine specifications share the module.  Spec is the load of one model.   *)
(* SceneSpec adds LAppLive2DManager: scene changes that discard a model    *)
(* while its requests are in flight, and the frame loop.  TapSpec is one   *)
(* model with pointer taps and frames while it loads.  CacheSpec is        *)
(* LAppTextureManager on its own, driven by any sequence of requests,      *)
(* decodes and releases.  WavSpec is LAppWavFileHandler.loadWavFile run    *)
(* on the byte buffers of WavShapes.  ClipSpec is the playback of a clip:  *)
(* start, the load of its response and update once a frame.  PointerSpec   *)
(* is one model under pointer down, move and up at several positions.      *)
(* NoContextSpec is the viewer whose canvas gave no graphics context.      *)
(* AssetSpec is ModelLoader: getAssetUrl and getAssetRaw on the tables the *)
(* build makes of the files under /src/assets.                             *)
(***************************************************************************)
EXTENDS Integers, Sequences, FiniteSets, TLC

(***************************************************************************)
(* Bounds of the model: the largest manifest that is explored.             *)
(***************************************************************************)
MaxExpressions == 2
MaxMotions == 2
MaxTextures == 2

(***************************************************************************)
(* enum LoadStep, in declaration order.                                    *)
(***************************************************************************)
LoadAssets == 0
LoadModel == 1
WaitLoadModel == 2
LoadExpression == 3
WaitLoadExpression == 4
LoadPhysics == 5
WaitLoadPhysics == 6
LoadPose == 7
WaitLoadPose == 8
SetupEyeBlink == 9
SetupBreath == 10
LoadUserData == 11
WaitLoadUserData == 12
SetupEyeBlinkIds == 13
SetupLipSyncIds == 14
SetupLayout == 15
LoadMotion == 16
WaitLoadMotion == 17
CompleteInitialize == 18
CompleteSetupModel == 19
LoadTexture == 20
WaitLoadTexture == 21
CompleteSetup == 22

LoadStep == LoadAssets..CompleteSetup

(***************************************************************************)
(* LAppDefine: the two motion groups the application uses.                 *)
(***************************************************************************)
MotionGroupIdle == "Idle"
MotionGroupTapBody == "TapBody"

(***************************************************************************)
(* LAppDefine: the scenes, the hit areas and the motion priorities.        *)
(***************************************************************************)
ModelDir == <<"Haru", "Mao", "Hiyori">>
ModelDirSize == Len(ModelDir)
HitAreaNameHead == "Head"
HitAreaNameBody == "Body"
PriorityNone == 0
PriorityIdle == 1
PriorityNormal == 2
PriorityForce == 3

VARIABLES
    manifest,    \* the model3.json the server holds for the scene
    model,       \* the LAppModel instance created by changeScene
    images,      \* Image elements whose decode has not completed yet
    _textures,   \* LAppTextureManager._textures
    glTextures,  \* number of textures created with gl.createTexture()
    history,     \* what has happened so far (not read by the program)
    orphans,     \* the models changeScene has discarded, with their requests
    manager,     \* LAppLive2DManager and LAppGlManager
    wav,         \* LAppWavFileHandler and the clip it is loading
    assets       \* ModelLoader: its two tables and its last call

vars == <<manifest, model, images, _textures, glTextures, history, orphans,
          manager, wav, assets>>

(***************************************************************************)
(* The manifests (ICubismModelSetting).  A file name is "" when the        *)
(* manifest does not name the file.  Motion groups are listed in manifest  *)
(* order with their motion counts; texture i is either unnamed ("") or has *)
(* a name of its own.                                                      *)
(***************************************************************************)
TextureName(i) == "texture_0" \o ToString(i) \o ".png"

TextureLists ==
    UNION { [1..n -> {0, 1}] : n \in 0..MaxTextures }

TextureFiles(flags) ==
    [i \in 1..Len(flags) |-> IF flags[i] = 1 THEN TextureName(i - 1) ELSE ""]

MotionGroupLists ==
    { <<>> }
    \cup { <<[name |-> g, count |-> c]>> :
             g \in {MotionGroupIdle, MotionGroupTapBody}, c \in 0..MaxMotions }
    \cup { <<[name |-> MotionGroupIdle, count |-> c], [name |-> MotionGroupTapBody, count |-> d]>> :
             c \in 0..MaxMotions, d \in 0..MaxMotions }

RECURSIVE SumCounts(_)
SumCounts(groups) ==
    IF groups = <<>> THEN 0
    ELSE groups[1].count + SumCounts(Tail(groups))

Manifests ==
    { [modelFileName |-> mf, expressionCount |-> e, physicsFileName |-> ph,
       poseFileName |-> po, userDataFile |-> ud, motionGroups |-> mg,
       textures |-> TextureFiles(tx), motionSound |-> "",
       hitAreas |-> {HitAreaNameHead, HitAreaNameBody}] :
        mf \in {"", "model.moc3"}, e \in 0..MaxExpressions,
        ph \in {"", "physics3.json"}, po \in {"", "pose3.json"},
        ud \in {"", "userdata3.json"},
        mg \in { g \in MotionGroupLists : SumCounts(g) <= MaxMotions },
        tx \in TextureLists }

NoSetting == [modelFileName |-> "null"]

(***************************************************************************)
(* ICubismModelSetting accessors used by the pipeline.                     *)
(***************************************************************************)
getExpressionCount(s) == s.expressionCount
getExpressionName(s, i) == "exp_0" \o ToString(i)
getMotionGroupCount(s) == Len(s.motionGroups)
getMotionGroupName(s, i) == s.motionGroups[i + 1].name
getMotionCount(s, group) ==
    IF \E k \in 1..Len(s.motionGroups) : s.motionGroups[k].name = group
    THEN (CHOOSE g \in { s.motionGroups[k] : k \in 1..Len(s.motionGroups) } :
              g.name = group).count
    ELSE 0
getTextureCount(s) == Len(s.textures)
getTextureFileName(s, i) == s.textures[i + 1]
getMotionSoundFileName(s, group, no) == s.motionSound

(***************************************************************************)
(* In-flight requests.  A fetch is named by what it loads; its promise     *)
(* callbacks close over the model instance that issued it.                *)
(***************************************************************************)
Fetch(kind, group, no) == [kind |-> kind, group |-> group, no |-> no]
ManifestFetch == Fetch("manifest", "", 0)
ModelFetch == Fetch("model", "", 0)
ExpressionFetch(i) == Fetch("expression", "", i)
PhysicsFetch == Fetch("physics", "", 0)
PoseFetch == Fetch("pose", "", 0)
UserDataFetch == Fetch("userData", "", 0)
MotionFetch(group, i) == Fetch("motion", group, i)
OnDemandFetch(group, i) == Fetch("onDemand", group, i)


(***************************************************************************)
(* The world a method runs in.                                             *)
(***************************************************************************)
World == [m |-> model, images |-> images, tm |-> _textures, gl |-> glTextures,
          h |-> history, ctx |-> manager._gl]

Kinds == {"manifest", "model", "expression", "physics", "pose", "userData",
          "motion", "texture", "onDemand"}

(* no call of startMotion yet.  materialized: _motions held a motion for
   the key; calls: the calls startMotion made after the reservation;
   returned: "invalid" for InvalidMotionQueueEntryHandleValue, "handle" for
   what startMotionPriority returned *)
NoStart == [materialized |-> FALSE, calls |-> {}, returned |-> "none"]

NoHistory ==
    [regressed |-> FALSE,        \* an assignment to _state stored a smaller LoadStep
     physicsCalls |-> 0,         \* calls of loadCubismPhysics
     rendererCalls |-> 0,        \* calls of createRenderer
     setupTexturesCalls |-> 0,   \* calls of setupTextures
     completeSets |-> 0,         \* assignments _state = CompleteSetup
     notOk |-> [k \in Kinds |-> 0],     \* non-OK (or unusable) responses handled
     rejected |-> [k \in Kinds |-> 0],  \* rejected fetches, image 'error' events
     unhandled |-> 0,            \* rejections and exceptions no handler caught
     logged |-> 0,               \* CubismLogError calls of the pipeline
     earlyStarts |-> 0,          \* calls of startMotionPriority before CompleteSetup
     earlyVoices |-> 0,          \* calls of _wavFileHandler.start before CompleteSetup
     expressionStarted |-> FALSE, \* _expressionManager.startMotion was called
     tapThrew |-> FALSE,         \* an exception left onTap
     hits |-> <<"none", "none">>, \* what hitTest answered in the last onTap
     reactions |-> {},           \* the calls the last onTap made on the model
     startMotion |-> NoStart,    \* what the last call of startMotion did
     created |-> <<>>,           \* the TextureInfo records made, in order
     deleted |-> <<>>,           \* handles passed to gl.deleteTexture, in order
     releases |-> 0,             \* calls of LAppTextureManager.release
     requests |-> <<>>,          \* the keys a cache client asked for, in order
     delivered |-> <<>>]         \* what the callbacks of a cache client received

(* this._state = step *)
setState(w, step) ==
    [w EXCEPT !.m._state = step,
              !.h.regressed = @ \/ (step < w.m._state),
              !.h.completeSets = IF step = CompleteSetup THEN @ + 1 ELSE @]

(* this.fetchAsset(name): the request is in flight *)
fetchAsset(w, f) == [w EXCEPT !.m.pending = @ \cup {f}]

(***************************************************************************)
(* LAppTextureManager.  A TextureInfo is its key (fileName, usePremultply), *)
(* its GL handle id and the width of the image it was made from (height is *)
(* set next to width and never on its own).  An Image element is the       *)
(* request it serves: the listener's route, the iterator index the hit     *)
(* path's listener closes over, the key, the callback, and from its decode *)
(* on the width of the picture.                                            *)
(***************************************************************************)
(* what ite.ptr() yields once the vector no longer has the index *)
Undefined == [undefined |-> TRUE]

(* the callback setupTextures passes for texture modelTextureNumber *)
OnLoadCallback(modelTextureNumber) == [kind |-> "onLoad", no |-> modelTextureNumber]

(* the callback of request number req of a client of the cache *)
ClientCallback(req) == [kind |-> "client", no |-> req]

SameKey(info, fileName, usePremultiply) ==
    info.fileName = fileName /\ info.usePremultply = usePremultiply

(* the handle gl.createTexture() returned last for the key, 0 if none *)
LatestHandle(created, fileName, usePremultiply) ==
    LET ks == { k \in 1..Len(created) : SameKey(created[k], fileName, usePremultiply) }
    IN  IF ks = {} THEN 0
        ELSE created[CHOOSE k \in ks : \A j \in ks : j <= k].id

(* onLoad declaring the model ready at the first texture *)
onLoad_firstTexture(w, modelTextureNumber, textureInfo) ==
    LET w1 == [w EXCEPT !.m.boundTextures =
                            { b \in @ : b[1] # modelTextureNumber }
                            \cup {<<modelTextureNumber, textureInfo.id>>},
                        !.m._textureCount = @ + 1]
    IN  IF textureInfo = Undefined
        THEN [w EXCEPT !.h.unhandled = @ + 1]
        ELSE IF w1.m._textureCount >= 1
        THEN setState(w1, CompleteSetup)
        ELSE w1

(* setupTextures.onLoad: the callback handed to the texture manager *)
onLoad(w, modelTextureNumber, textureInfo) ==
    LET textureCount == getTextureCount(w.m._modelSetting)
        w1 == [w EXCEPT !.m.boundTextures =
                            { b \in @ : b[1] # modelTextureNumber }
                            \cup {<<modelTextureNumber, textureInfo.id>>},
                        !.m._textureCount = @ + 1]
    IN  IF textureInfo = Undefined
        THEN [w EXCEPT !.h.unhandled = @ + 1]      \* textureInfo.id of undefined
        ELSE IF w1.m._textureCount >= textureCount
        THEN setState(w1, CompleteSetup)
        ELSE w1

(* callback(textureInfo), for the two kinds of caller *)
invoke(w, img, textureInfo) ==
    IF img.callback.kind = "onLoad"
    THEN onLoad(w, img.callback.no, textureInfo)
    ELSE [w EXCEPT !.h.delivered = Append(@,
             [req |-> img.callback.no, route |-> img.route, info |-> textureInfo,
              latest |-> LatestHandle(w.h.created, img.fileName, img.usePremultiply),
              epoch |-> w.h.releases])]

(* the 'load' listener of the miss path looking the key up again after the
   insertion and handing the first record it finds to the callback *)
missListener_lookupAfterInsert(w, img) ==
    LET tex == w.gl + 1
        textureInfo == [fileName |-> img.fileName, usePremultply |-> img.usePremultiply,
                        id |-> tex, width |-> img.width]
        w1 == [w EXCEPT !.gl = tex, !.tm = Append(@, textureInfo),
                        !.h.created = Append(@, textureInfo)]
        first == CHOOSE k \in 1..Len(w1.tm) :
                    /\ SameKey(w1.tm[k], img.fileName, img.usePremultiply)
                    /\ \A j \in 1..(k - 1) :
                          ~SameKey(w1.tm[j], img.fileName, img.usePremultiply)
    IN  IF ~w.ctx
        THEN [w EXCEPT !.h.unhandled = @ + 1]
        ELSE invoke(w1, img, w1.tm[first])

(* the 'load' listener of the miss path *)
missListener(w, img) ==
    LET tex == w.gl + 1
        textureInfo == [fileName |-> img.fileName, usePremultply |-> img.usePremultiply,
                        id |-> tex, width |-> img.width]
        w1 == [w EXCEPT !.gl = tex, !.tm = Append(@, textureInfo),
                        !.h.created = Append(@, textureInfo)]
    IN  IF ~w.ctx
        THEN [w EXCEPT !.h.unhandled = @ + 1]      \* getGl() is null: gl.createTexture()
        ELSE invoke(w1, img, textureInfo)

(* the hit path's listener taking its width from the new picture *)
hitListener_newWidth(w, img) ==
    IF img.index <= Len(w.tm)
    THEN invoke([w EXCEPT !.tm[img.index].width = img.width], img,
                [w.tm[img.index] EXCEPT !.width = img.width])
    ELSE invoke(w, img, Undefined)

(* the 'load' listener of the hit path: callback(ite.ptr()) *)
hitListener(w, img) ==
    invoke(w, img, IF img.index <= Len(w.tm) THEN w.tm[img.index] ELSE Undefined)

createTextureFromPngFile(w, fileName, usePremultiply, callback) ==
    LET found == { k \in 1..Len(w.tm) : SameKey(w.tm[k], fileName, usePremultiply) }
        first == CHOOSE k \in found : \A j \in found : k <= j
    IN  IF found # {}
        THEN [w EXCEPT !.images = @ \cup
                 {[route |-> "hit", index |-> first, fileName |-> fileName,
                   usePremultiply |-> usePremultiply, callback |-> callback,
                   width |-> 0]}]
        ELSE [w EXCEPT !.images = @ \cup
                 {[route |-> "miss", index |-> 0, fileName |-> fileName,
                   usePremultiply |-> usePremultiply, callback |-> callback,
                   width |-> 0]}]

(* release() clearing the vector and deleting nothing *)
release_keepHandles(w) == [w EXCEPT !.tm = <<>>, !.h.releases = @ + 1]

(* LAppTextureManager.release: deleteTexture for every record, then clear() *)
release(w) ==
    [w EXCEPT !.tm = <<>>,
              !.h.deleted = @ \o [k \in 1..Len(w.tm) |-> w.tm[k].id],
              !.h.releases = @ + 1]

(***************************************************************************)
(* LAppModel: the texture stage                                            *)
(***************************************************************************)
RECURSIVE setupTexturesLoop(_, _)
setupTexturesLoop(w, modelTextureNumber) ==
    LET s == w.m._modelSetting
    IN  IF modelTextureNumber >= getTextureCount(s) THEN w
        ELSE IF getTextureFileName(s, modelTextureNumber) = ""
        THEN setupTexturesLoop(w, modelTextureNumber + 1)
        ELSE setupTexturesLoop(
                 createTextureFromPngFile(
                     w, w.m._modelHomeDir \o getTextureFileName(s, modelTextureNumber),
                     TRUE, OnLoadCallback(modelTextureNumber)),
                 modelTextureNumber + 1)

setupTextures(w) ==
    LET w1 == [w EXCEPT !.h.setupTexturesCalls = @ + 1]
    IN  IF w1.m._state = LoadTexture
        THEN setState(setupTexturesLoop(w1, 0), WaitLoadTexture)
        ELSE w1

(* the block both preLoadMotionGroup's callback and loadCubismMotion run
   when no motion is left to wait for *)
startTextureStage(w) ==
    LET w1 == setState(w, LoadTexture)
        w2 == [w1 EXCEPT !.m._updating = FALSE, !.m._initialized = TRUE,
                         !.m.renderer = "created",
                         !.h.rendererCalls = @ + 1]
        w3 == setupTextures(w2)
    IN  [w3 EXCEPT !.m.renderer = "started"]

(***************************************************************************)
(* LAppModel: the motion stage                                             *)
(***************************************************************************)
MotionName(group, i) == group \o "_" \o ToString(i)

(* preLoadMotionThen with a failed motion also counted as completed *)
preLoadMotionThen_countsFailure(w, group, i, usable) ==
    LET name == group \o "_" \o ToString(i)
        w1 == IF usable
              THEN [w EXCEPT !.m._motions = @ \cup {name},
                             !.m._motionCount = @ + 1]
              ELSE [w EXCEPT !.m._allMotionCount = @ - 1,
                             !.m._motionCount = @ + 1]
    IN  IF w1.m._motionCount >= w1.m._allMotionCount
        THEN startTextureStage(w1)
        ELSE w1

(* preLoadMotionThen with a failed motion left in the total *)
preLoadMotionThen_noDecrement(w, group, i, usable) ==
    LET name == group \o "_" \o ToString(i)
        w1 == IF usable
              THEN [w EXCEPT !.m._motions = @ \cup {name},
                             !.m._motionCount = @ + 1]
              ELSE w
    IN  IF w1.m._motionCount >= w1.m._allMotionCount
        THEN startTextureStage(w1)
        ELSE w1

(* the second then() of a preloaded motion's fetch; usable is whether the
   engine's loadMotion returned a motion (it returns null for the empty
   buffer of a non-OK response and for a binary it rejects) *)
preLoadMotionThen(w, group, i, usable) ==
    LET name == MotionName(group, i)
        w1 == IF usable
              THEN [w EXCEPT !.m._motions = @ \cup {name},
                             !.m._motionCount = @ + 1]
              ELSE [w EXCEPT !.m._allMotionCount = @ - 1]
    IN  IF w1.m._motionCount >= w1.m._allMotionCount
        THEN startTextureStage(w1)
        ELSE w1

preLoadMotionGroup(w, group) ==
    [w EXCEPT !.m.pending = @ \cup
        { MotionFetch(group, i) : i \in 0..(getMotionCount(w.m._modelSetting, group) - 1) }]

RECURSIVE preLoadMotionGroups(_, _)
preLoadMotionGroups(w, i) ==
    IF i >= getMotionGroupCount(w.m._modelSetting) THEN w
    ELSE preLoadMotionGroups(
             preLoadMotionGroup(w, getMotionGroupName(w.m._modelSetting, i)), i + 1)

(* allMotionCount with = in place of +=: the last group's count only *)
allMotionCount_lastGroup(s, i) ==
    IF getMotionGroupCount(s) = 0 THEN 0
    ELSE getMotionCount(s, getMotionGroupName(s, getMotionGroupCount(s) - 1))

RECURSIVE allMotionCount(_, _)
allMotionCount(s, i) ==
    IF i >= getMotionGroupCount(s) THEN 0
    ELSE getMotionCount(s, getMotionGroupName(s, i)) + allMotionCount(s, i + 1)

(* loadCubismMotion with the WaitLoadMotion assignment after the fan-out,
   where the other stages have theirs *)
loadCubismMotion_waitLast(w) ==
    LET s  == w.m._modelSetting
        w2 == [w EXCEPT !.m._allMotionCount = allMotionCount(s, 0),
                        !.m._motionCount = 0]
        w3 == preLoadMotionGroups(w2, 0)
    IN  IF ~w.m._model
        THEN [w EXCEPT !.h.unhandled = @ + 1]
        ELSE IF getMotionGroupCount(s) = 0
        THEN setState(startTextureStage(w3), WaitLoadMotion)
        ELSE setState(w3, WaitLoadMotion)

loadCubismMotion(w) ==
    LET w1 == setState(w, WaitLoadMotion)
        s  == w.m._modelSetting
        w2 == [w1 EXCEPT !.m._allMotionCount = allMotionCount(s, 0),
                         !.m._motionCount = 0]
        w3 == preLoadMotionGroups(w2, 0)
    IN  IF ~w1.m._model
        THEN [w1 EXCEPT !.h.unhandled = @ + 1]   \* this._model.saveParameters() on null
        ELSE IF getMotionGroupCount(s) = 0
        THEN startTextureStage(w3)
        ELSE w3

(***************************************************************************)
(* LAppModel: layout, effect ids, user data, breath, eye blink, pose,      *)
(* physics                                                                 *)
(***************************************************************************)
setupLayout(w) ==
    IF w.m._modelSetting = NoSetting \/ ~w.m._modelMatrix
    THEN [w EXCEPT !.h.logged = @ + 1]
    ELSE loadCubismMotion(setState(w, LoadMotion))

setupLipSyncIds(w) == setupLayout(setState(w, SetupLayout))

setupEyeBlinkIds(w) == setupLipSyncIds(setState(w, SetupLipSyncIds))

loadUserDataThen(w) == setupEyeBlinkIds(setState(w, SetupEyeBlinkIds))

loadUserDataFile(w) ==
    IF w.m._modelSetting.userDataFile # ""
    THEN setState(fetchAsset(w, UserDataFetch), WaitLoadUserData)
    ELSE setupEyeBlinkIds(setState(w, SetupEyeBlinkIds))

setupBreath(w) == loadUserDataFile(setState(w, LoadUserData))

setupEyeBlink(w) == setupBreath(w)

loadPoseThen(w) == setupEyeBlink(setState(w, SetupEyeBlink))

loadCubismPose(w) ==
    IF w.m._modelSetting.poseFileName # ""
    THEN setState(fetchAsset(w, PoseFetch), WaitLoadPose)
    ELSE setupEyeBlink(setState(w, SetupEyeBlink))

loadPhysicsThen(w) == loadCubismPose(setState(w, LoadPose))

loadCubismPhysics(w) ==
    LET w1 == [w EXCEPT !.h.physicsCalls = @ + 1]
    IN  IF w1.m._modelSetting.physicsFileName # ""
        THEN setState(fetchAsset(w1, PhysicsFetch), WaitLoadPhysics)
        ELSE loadCubismPose(setState(w1, LoadPose))

(***************************************************************************)
(* LAppModel: the expression stage                                         *)
(***************************************************************************)
(* the second then() of an expression's fetch: the engine's loadExpression
   result is stored under the expression's name whatever the response was *)
(* the expression stage left at the first completion *)
loadExpressionThen_firstCompletion(w, i) ==
    LET w1 == [w EXCEPT !.m._expressions = @ \cup {getExpressionName(w.m._modelSetting, i)},
                        !.m._expressionCount = @ + 1]
    IN  IF w1.m._expressionCount >= 1
        THEN loadCubismPhysics(setState(w1, LoadPhysics))
        ELSE w1

loadExpressionThen(w, i) ==
    LET count == getExpressionCount(w.m._modelSetting)
        w1 == [w EXCEPT !.m._expressions = @ \cup {getExpressionName(w.m._modelSetting, i)},
                        !.m._expressionCount = @ + 1]
    IN  IF w1.m._expressionCount >= count
        THEN loadCubismPhysics(setState(w1, LoadPhysics))
        ELSE w1

loadCubismExpression(w) ==
    LET count == getExpressionCount(w.m._modelSetting)
    IN  IF count > 0
        THEN setState([w EXCEPT !.m.pending = @ \cup { ExpressionFetch(i) : i \in 0..(count - 1) }],
                      WaitLoadExpression)
        ELSE loadCubismPhysics(setState(w, LoadPhysics))

(***************************************************************************)
(* LAppModel: manifest and rig binary                                      *)
(***************************************************************************)
(* loadModel building a model from whatever buffer it is given *)
loadModel_anyBuffer(w, buffer) ==
    [w EXCEPT !.m._model = TRUE, !.m._modelMatrix = TRUE]

(* CubismUserModel.loadModel: the engine builds the model and its model
   matrix from a moc3 binary and leaves both null for anything else *)
loadModel(w, buffer) ==
    IF buffer = "moc3"
    THEN [w EXCEPT !.m._model = TRUE, !.m._modelMatrix = TRUE]
    ELSE [w EXCEPT !.h.logged = @ + 1]

(* the then() chain of the rig binary's fetch *)
setupModelThen(w, ok) ==
    LET arrayBuffer == IF ok THEN "moc3" ELSE "empty"
        w1 == IF ok THEN w ELSE [w EXCEPT !.h.logged = @ + 1]
    IN  loadCubismExpression(setState(loadModel(w1, arrayBuffer), LoadExpression))

setupModel(w, setting) ==
    LET w1 == [w EXCEPT !.m._updating = TRUE, !.m._initialized = FALSE,
                        !.m._modelSetting = setting]
    IN  IF setting.modelFileName # ""
        THEN setState(fetchAsset(w1, ModelFetch), WaitLoadModel)
        ELSE w1

(* the then() chain of the manifest's fetch *)
loadAssetsThen(w, setting) == setupModel(setState(w, LoadModel), setting)

(* loadAssets without its catch(): the rejection reaches no handler *)
loadAssetsCatch_rethrow(w) == [w EXCEPT !.h.unhandled = @ + 1]

(* the catch() of the manifest's fetch *)
loadAssetsCatch(w) == [w EXCEPT !.h.logged = @ + 1]

loadAssets(w, dir) ==
    fetchAsset([w EXCEPT !.m._modelHomeDir = dir], ManifestFetch)

(* new LAppModel() *)
NewModel ==
    [_modelSetting |-> NoSetting, _modelHomeDir |-> "", _state |-> LoadAssets,
     _expressionCount |-> 0, _textureCount |-> 0, _motionCount |-> 0,
     _allMotionCount |-> 0, _motions |-> {}, _expressions |-> {},
     _updating |-> FALSE, _initialized |-> FALSE,
     _model |-> FALSE, _modelMatrix |-> FALSE,
     renderer |-> "null", boundTextures |-> {}, pending |-> {},
     _reservePriority |-> PriorityNone, _currentPriority |-> PriorityNone,
     playing |-> FALSE,
     drag |-> <<0, 0>>]          \* the target setDragging passed on last

(***************************************************************************)
(* LAppModel: motions and expressions started on demand, update and draw   *)
(***************************************************************************)
(* throw: the exception leaves the handler that is running *)
throw(w) == [w EXCEPT !.h.unhandled = @ + 1]

(* CubismMotionManager.reserveMotion, as startMotion uses it *)
reserveMotion(m, priority) ==
    ~(priority <= m._reservePriority \/ priority <= m._currentPriority)

(* CubismMotionManager.startMotionPriority *)
startMotionPriority(w, priority) ==
    [w EXCEPT !.m._reservePriority = IF priority = @ THEN PriorityNone ELSE @,
              !.m._currentPriority = priority,
              !.m.playing = TRUE,
              !.h.earlyStarts = IF w.m._state # CompleteSetup THEN @ + 1 ELSE @]

(* this._wavFileHandler.start(url) *)
startVoice(w) ==
    [w EXCEPT !.h.earlyVoices = IF w.m._state # CompleteSetup THEN @ + 1 ELSE @]

(* startMotion starting the clip before it looks the motion up *)
startMotion_voiceFirst(w, group, no, priority) ==
    LET name == MotionName(group, no)
        w1 == [w EXCEPT !.m._reservePriority = priority]
        voice == getMotionSoundFileName(w.m._modelSetting, group, no)
        spoken == IF voice # "" THEN {"start"} ELSE {}
        w2 == IF voice # "" THEN startVoice(w1) ELSE w1
        did(v, materialized, calls, returned) ==
            [v EXCEPT !.h.startMotion = [materialized |-> materialized,
                                         calls |-> calls, returned |-> returned]]
    IN  IF priority # PriorityForce /\ ~reserveMotion(w.m, priority)
        THEN did(w, name \in w.m._motions, {}, "invalid")
        ELSE IF name \notin w1.m._motions
        THEN did([fetchAsset(w2, OnDemandFetch(group, no))
                     EXCEPT !.m._reservePriority = PriorityNone],
                 FALSE, {"fetchAsset", "setReservePriority"} \cup spoken, "invalid")
        ELSE did(startMotionPriority(w2, priority),
                 TRUE, {"startMotionPriority"} \cup spoken, "handle")

startMotion(w, group, no, priority) ==
    LET name == MotionName(group, no)
        w1 == [w EXCEPT !.m._reservePriority = priority]
        voice == getMotionSoundFileName(w.m._modelSetting, group, no)
        did(v, materialized, calls, returned) ==
            [v EXCEPT !.h.startMotion = [materialized |-> materialized,
                                         calls |-> calls, returned |-> returned]]
    IN  IF priority # PriorityForce /\ ~reserveMotion(w.m, priority)
        THEN \* InvalidMotionQueueEntryHandleValue
             did(w, name \in w.m._motions, {}, "invalid")
        ELSE IF name \notin w1.m._motions
        THEN \* the fetch is issued, motion is still null when it is tested
             did([fetchAsset(w1, OnDemandFetch(group, no))
                     EXCEPT !.m._reservePriority = PriorityNone],
                 FALSE, {"fetchAsset", "setReservePriority"}, "invalid")
        ELSE did(startMotionPriority(IF voice # "" THEN startVoice(w1) ELSE w1,
                                     priority),
                 TRUE,
                 {"startMotionPriority"} \cup (IF voice # "" THEN {"start"} ELSE {}),
                 "handle")

(* no is the motion Math.random() picks *)
startRandomMotion(w, group, priority, no) ==
    IF w.m._modelSetting = NoSetting
    THEN throw(w)                                \* this._modelSetting!.getMotionCount
    ELSE IF getMotionCount(w.m._modelSetting, group) = 0
    THEN w
    ELSE startMotion(w, group, no, priority)

(* setExpression of the expression Math.random() picks *)
setRandomExpression(w) ==
    IF w.m._expressions = {} THEN w
    ELSE [w EXCEPT !.h.expressionStarted = TRUE]

(* hitTest: "throw", or whether the point is in the area; hit is what the
   engine's isHit answers for the point *)
hitTest(w, hitArenaName, hit) ==
    IF w.m._modelSetting = NoSetting
    THEN "throw"                                 \* this._modelSetting!.getHitAreasCount()
    ELSE IF hitArenaName \notin w.m._modelSetting.hitAreas
    THEN "false"
    ELSE IF ~w.m._model
    THEN "throw"                                 \* isHit reads this._model
    ELSE IF hit THEN "true" ELSE "false"

(* the then() chain of startMotion's own fetch: the motion it builds is
   assigned to a local variable of a call that has returned *)
startMotionThen(w) == w

(* update without its first line *)
update_anyState(w, finished, no) ==
    IF ~w.m._model THEN throw(w)
    ELSE IF ~w.m.playing
    THEN startRandomMotion(w, MotionGroupIdle, PriorityIdle, no)
    ELSE IF finished
    THEN [w EXCEPT !.m.playing = FALSE, !.m._currentPriority = PriorityNone]
    ELSE w

(* LAppModel.update; finished is whether the playing motion ends in this
   frame, no is the idle motion Math.random() picks *)
update(w, finished, no) ==
    IF w.m._state # CompleteSetup THEN w
    ELSE IF ~w.m._model THEN throw(w)            \* this._model.loadParameters()
    ELSE IF ~w.m.playing
    THEN startRandomMotion(w, MotionGroupIdle, PriorityIdle, no)
    ELSE IF finished
    THEN [w EXCEPT !.m.playing = FALSE, !.m._currentPriority = PriorityNone]
    ELSE w

(* LAppModel.draw: "throw", "drawn" or "skipped" *)
draw(w) ==
    IF ~w.m._model THEN "skipped"
    ELSE IF w.m._state # CompleteSetup THEN "skipped"
    ELSE IF ~w.m._modelMatrix \/ w.m.renderer # "started" THEN "throw"
    ELSE "drawn"

(***************************************************************************)
(* LAppLive2DManager                                                       *)
(***************************************************************************)
(* TouchManager: the drag anchor *)
NewTouchManager == [x |-> 0, y |-> 0]
touchesBegan(t, deviceX, deviceY) == [t EXCEPT !.x = deviceX, !.y = deviceY]
touchesMoved(t, deviceX, deviceY) == [t EXCEPT !.x = deviceX, !.y = deviceY]
getX(t) == t.x
getY(t) == t.y

(* no pointer event has been delivered *)
NoEvent == [kind |-> "none", prev |-> "none", pageX |-> 0, pageY |-> 0]

(* the manager after initialize() and run().  _models is the size of the
   vector; cubism is whether CubismFramework, a static of the engine, is
   initialized.  event is the pointer event delivered last and the kind of the
   one before; forwarded, taps and tapAt are what the handler of that
   event did: the drag targets it passed to onDrag, its calls of onTap and
   the point of the last one; skipped is whether a turn of the loop has
   called update and draw on a model that was not CompleteSetup and had no
   request in flight *)
NewManager ==
    [_gl |-> TRUE, _sceneIndex |-> 0, _captured |-> FALSE, running |-> TRUE,
     drawn |-> FALSE, skipped |-> FALSE, switches |-> 0, _models |-> 1,
     cubism |-> TRUE,
     _touchManager |-> NewTouchManager, event |-> NoEvent,
     forwarded |-> <<>>, taps |-> 0, tapAt |-> <<0, 0>>]

ModelPath(index) == "/" \o ModelDir[index + 1] \o "/"

(* the values Math.floor(Math.random() * getMotionCount(group)) can take *)
RandomIndex(m, group) ==
    IF m._modelSetting = NoSetting \/ getMotionCount(m._modelSetting, group) = 0
    THEN {0}
    ELSE 0..(getMotionCount(m._modelSetting, group) - 1)

(* onTap testing the body whether or not the head was hit *)
onTap_bothRegions(w, mgr, hitHead, hitBody, no) ==
    LET head == hitTest(w, HitAreaNameHead, hitHead)
        body == hitTest(w, HitAreaNameBody, hitBody)
        did(hits, calls) == [w EXCEPT !.h.hits = hits, !.h.reactions = calls]
        w1 == IF head = "true"
              THEN setRandomExpression(did(<<head, body>>, {"setRandomExpression"}))
              ELSE did(<<head, body>>, {})
    IN  IF mgr._models = 0 THEN did(<<"none", "none">>, {})
        ELSE IF head = "throw" \/ body = "throw"
        THEN [did(<<head, body>>, {}) EXCEPT !.h.tapThrew = TRUE]
        ELSE IF body = "true"
        THEN startRandomMotion(
                 [w1 EXCEPT !.h.reactions = @ \cup {"startRandomMotion"}],
                 MotionGroupTapBody, PriorityNormal, no)
        ELSE w1

(* onTap; hitHead and hitBody are the engine's answers for the two areas.
   An exception leaves onTap and the pointer event's listener. *)
onTap(w, mgr, hitHead, hitBody, no) ==
    LET head == hitTest(w, HitAreaNameHead, hitHead)
        body == hitTest(w, HitAreaNameBody, hitBody)
        did(hits, calls) == [w EXCEPT !.h.hits = hits, !.h.reactions = calls]
    IN  IF mgr._models = 0 THEN did(<<"none", "none">>, {})
        ELSE IF head = "throw"
        THEN [did(<<head, "none">>, {}) EXCEPT !.h.tapThrew = TRUE]
        ELSE IF head = "true"
        THEN setRandomExpression(did(<<head, "none">>, {"setRandomExpression"}))
        ELSE IF body = "throw"
        THEN [did(<<head, body>>, {}) EXCEPT !.h.tapThrew = TRUE]
        ELSE IF body = "true"
        THEN startRandomMotion(did(<<head, body>>, {"startRandomMotion"}),
                               MotionGroupTapBody, PriorityNormal, no)
        ELSE did(<<head, body>>, {})

(* CubismUserModel.setDragging *)
setDragging(w, x, y) == [w EXCEPT !.m.drag = <<x, y>>]

onDrag(w, mgr, x, y) == IF mgr._models = 0 THEN w ELSE setDragging(w, x, y)

(* the canvas: a square of CanvasWidth device pixels on a display of
   DevicePixelRatio, its corner at (CanvasOffsetLeft, CanvasOffsetTop) of
   the page *)
CanvasOffsetLeft == 1
CanvasOffsetTop == 1
DevicePixelRatio == 2
CanvasWidth == 2
CanvasHeight == 2
ViewLogicalLeft == -1
ViewLogicalRight == 1
ViewScale == 1

(* initializeView for a canvas that is not wider than high:
   _deviceToScreen is scaleRelative(screenH / height, -screenH / height)
   and then translateRelative(-width * 0.5, -height * 0.5); _viewMatrix is
   scale(ViewScale, ViewScale) *)
screenH == ViewLogicalRight - ViewLogicalLeft

(* _viewMatrix.invertTransformX(_deviceToScreen.transformX(deviceX)) *)
transformViewX(deviceX) ==
    (((screenH * 2) \div CanvasHeight) * (deviceX * 2 - CanvasWidth)) \div (4 * ViewScale)

transformViewY(deviceY) ==
    ((-((screenH * 2) \div CanvasHeight)) * (deviceY * 2 - CanvasHeight)) \div (4 * ViewScale)

(* the page coordinates of the pointer events *)
PageXs == CanvasOffsetLeft..(CanvasOffsetLeft + 1)
PageYs == CanvasOffsetTop..(CanvasOffsetTop + 1)

(* the pointer event the handler that runs was called for *)
delivered(mgr, kind, pageX, pageY) ==
    [mgr EXCEPT !.event = [kind |-> kind, prev |-> mgr.event.kind,
                           pageX |-> pageX, pageY |-> pageY],
                !.forwarded = <<>>, !.taps = 0]

onPointBegan(w, mgr, pageX, pageY) ==
    LET localX == pageX - CanvasOffsetLeft
        localY == pageY - CanvasOffsetTop
    IN  [w |-> w,
         mgr |-> [mgr EXCEPT !._captured = TRUE,
                             !._touchManager =
                                 touchesBegan(@, localX * DevicePixelRatio,
                                              localY * DevicePixelRatio)]]

(* onPointMoved reading the anchor after touchesMoved *)
onPointMoved_newAnchor(w, mgr, pageX, pageY) ==
    LET localX == pageX - CanvasOffsetLeft
        localY == pageY - CanvasOffsetTop
        posX == localX * DevicePixelRatio
        posY == localY * DevicePixelRatio
        moved == touchesMoved(mgr._touchManager, posX, posY)
        viewX == transformViewX(getX(moved))
        viewY == transformViewY(getY(moved))
    IN  IF ~mgr._captured THEN [w |-> w, mgr |-> mgr]
        ELSE [w |-> onDrag(w, mgr, viewX, viewY),
              mgr |-> [mgr EXCEPT !._touchManager = moved,
                                  !.forwarded = <<<<viewX, viewY>>>>]]

onPointMoved(w, mgr, pageX, pageY) ==
    LET localX == pageX - CanvasOffsetLeft
        localY == pageY - CanvasOffsetTop
        posX == localX * DevicePixelRatio
        posY == localY * DevicePixelRatio
        viewX == transformViewX(getX(mgr._touchManager))
        viewY == transformViewY(getY(mgr._touchManager))
    IN  IF ~mgr._captured THEN [w |-> w, mgr |-> mgr]
        ELSE [w |-> onDrag(w, mgr, viewX, viewY),
              mgr |-> [mgr EXCEPT !._touchManager = touchesMoved(@, posX, posY),
                                  !.forwarded = <<<<viewX, viewY>>>>]]

(* onPointEnded leaving the drag target as it is *)
onPointEnded_keepsDrag(w, mgr, pageX, pageY, hitHead, hitBody, no) ==
    LET localX == pageX - CanvasOffsetLeft
        localY == pageY - CanvasOffsetTop
        x == transformViewX(localX * DevicePixelRatio)
        y == transformViewY(localY * DevicePixelRatio)
    IN  [w |-> onTap(w, mgr, hitHead, hitBody, no),
         mgr |-> [mgr EXCEPT !._captured = FALSE,
                             !.taps = @ + 1, !.tapAt = <<x, y>>]]

(* onPointEnded; hitHead, hitBody and no as in onTap *)
onPointEnded(w, mgr, pageX, pageY, hitHead, hitBody, no) ==
    LET localX == pageX - CanvasOffsetLeft
        localY == pageY - CanvasOffsetTop
        posX == localX * DevicePixelRatio
        posY == localY * DevicePixelRatio
        x == transformViewX(posX)
        y == transformViewY(posY)
    IN  [w |-> onTap(onDrag(w, mgr, 0, 0), mgr, hitHead, hitBody, no),
         mgr |-> [mgr EXCEPT !._captured = FALSE, !.forwarded = <<<<0, 0>>>>,
                             !.taps = @ + 1, !.tapAt = <<x, y>>]]

(* the callbacks of a settled fetch, by what the fetch loads; ok is whether
   the response can be used *)
fetchThen(w, f, setting, ok) ==
    CASE f.kind = "manifest"   -> IF ok THEN loadAssetsThen(w, setting)
                                  ELSE loadAssetsCatch(w)
      [] f.kind = "model"      -> setupModelThen(w, ok)
      [] f.kind = "expression" -> loadExpressionThen(w, f.no)
      [] f.kind = "physics"    -> loadPhysicsThen(w)
      [] f.kind = "pose"       -> loadPoseThen(w)
      [] f.kind = "userData"   -> loadUserDataThen(w)
      [] f.kind = "motion"     -> preLoadMotionThen(w, f.group, f.no, ok)
      [] f.kind = "onDemand"   -> startMotionThen(w)

(***************************************************************************)
(* LAppWavFileHandler.  A buffer is the sequence of its bytes; ByteReader  *)
(* reads the byte at _readOffset with DataView.getUint8, which throws for *)
(* an offset outside the buffer.                                           *)
(***************************************************************************)
CanRead(buf, offset, n) == offset >= 0 /\ offset + n <= Len(buf)

(* get16LittleEndian: (b1 << 8) | b0 *)
get16LittleEndian(buf, offset) == buf[offset + 2] * 256 + buf[offset + 1]

(* get32LittleEndian: (b3 << 24) | (b2 << 16) | (b1 << 8) | b0, a signed
   32-bit integer *)
get32LittleEndian(buf, offset) ==
    LET b3 == buf[offset + 4]
    IN  (IF b3 >= 128 THEN b3 - 256 ELSE b3) * 16777216
        + buf[offset + 3] * 65536 + buf[offset + 2] * 256 + buf[offset + 1]

(* TextEncoder().encode(reference) for the signatures the parser knows *)
Signature(reference) ==
    CASE reference = "RIFF" -> <<82, 73, 70, 70>>
      [] reference = "WAVE" -> <<87, 65, 86, 69>>
      [] reference = "fmt " -> <<102, 109, 116, 32>>
      [] reference = "data" -> <<100, 97, 116, 97>>
      [] reference = "LIST" -> <<76, 73, 83, 84>>
      [] OTHER -> <<88, 88, 88, 88>>

getCheckSignature(buf, offset, reference) ==
    SubSeq(buf, offset + 1, offset + 4) = Signature(reference)

(* the while loop that looks for the 'data' chunk, from _readOffset = offset;
   visited are the offsets an earlier iteration started from.  The loop has
   no state but _readOffset, so an iteration that starts where an earlier
   one did repeats it for ever: exit "never".  In
       _readOffset += get32LittleEndian() + 4
   the left operand is read before get32LittleEndian() advances it. *)
RECURSIVE chunkScan(_, _, _)
chunkScan(buf, offset, visited) ==
    IF offset \in visited
    THEN [exit |-> "never", offset |-> offset]
    ELSE IF ~CanRead(buf, offset, 4)
    THEN [exit |-> "throw", offset |-> offset]
    ELSE IF getCheckSignature(buf, offset, "data")
    THEN [exit |-> "found", offset |-> offset + 4]
    ELSE IF ~(offset + 4 < Len(buf))
    THEN [exit |-> "end", offset |-> offset + 4]
    ELSE IF ~CanRead(buf, offset + 4, 4)
    THEN [exit |-> "throw", offset |-> offset + 4]
    ELSE chunkScan(buf, (offset + 4) + get32LittleEndian(buf, offset + 4) + 4,
                   visited \cup {offset})

(* the double of the integer n.  A double is kept as the quotient n/d of
   two integers, d > 0, or as the kind the IEEE division by 0 gives *)
Double(n) == [kind |-> "number", n |-> n, d |-> 1]

(* (dataChunkSize * 8) / (_bitsPerSample * _numberOfChannels), a double: the
   quotient n/d, or what the division by 0 gives *)
samplesPerChannel(dataChunkSize, bits, channels) ==
    LET n == dataChunkSize * 8
        d == bits * channels
    IN  IF d # 0 THEN [kind |-> "number", n |-> n, d |-> d]
        ELSE IF n > 0 THEN [kind |-> "Infinity", n |-> n, d |-> d]
        ELSE IF n < 0 THEN [kind |-> "-Infinity", n |-> n, d |-> d]
        ELSE [kind |-> "NaN", n |-> n, d |-> d]

(* whether sampleCount < spc *)
Below(sampleCount, spc) ==
    CASE spc.kind = "number"   -> sampleCount * spc.d < spc.n
      [] spc.kind = "Infinity" -> TRUE
      [] OTHER                 -> FALSE

(* the length new Float32Array(spc) gets, or -1 where it throws RangeError *)
float32ArrayLength(spc) ==
    CASE spc.kind = "NaN"    -> 0
      [] spc.kind = "number" -> IF spc.n >= 0 THEN spc.n \div spc.d
                                ELSE IF -spc.n < spc.d THEN 0 ELSE -1
      [] OTHER               -> -1

(* the bytes getPcmSample reads *)
sampleBytes(bits) == IF bits \in {8, 16, 24} THEN bits \div 8 ELSE 0

(* getPcmSample: the 32-bit sample before it is divided by 2147483647 *)
getPcmSample(buf, offset, bits) ==
    CASE bits = 8  -> (buf[offset + 1] - 128) * 16777216
      [] bits = 16 -> LET v == get16LittleEndian(buf, offset)
                      IN  (IF v >= 32768 THEN v - 65536 ELSE v) * 65536
      [] bits = 24 -> LET v == buf[offset + 3] * 65536 + get16LittleEndian(buf, offset)
                      IN  (IF v >= 8388608 THEN v - 16777216 ELSE v) * 256
      [] OTHER     -> 0

(* the inner loop over the channels, for sample sampleCount *)
RECURSIVE decodeChannels(_, _, _, _, _, _)
decodeChannels(buf, offset, bits, pcm, sampleCount, channelCount) ==
    IF channelCount >= Len(pcm)
    THEN [exit |-> "done", offset |-> offset, pcm |-> pcm]
    ELSE IF ~CanRead(buf, offset, sampleBytes(bits))
    THEN [exit |-> "throw", offset |-> offset, pcm |-> pcm]
    ELSE decodeChannels(
             buf, offset + sampleBytes(bits), bits,
             IF sampleCount < Len(pcm[channelCount + 1])
             THEN [pcm EXCEPT ![channelCount + 1][sampleCount + 1] =
                                  getPcmSample(buf, offset, bits)]
             ELSE pcm,                       \* a write past the array's end is dropped
             sampleCount, channelCount + 1)

(* the outer loop over the samples.  With no channel the body does nothing,
   and with the bound Infinity sampleCount < bound holds for ever: exit
   "never" *)
RECURSIVE decodeSamples(_, _, _, _, _, _)
decodeSamples(buf, offset, bits, spc, pcm, sampleCount) ==
    IF ~Below(sampleCount, spc)
    THEN [exit |-> "done", offset |-> offset, pcm |-> pcm]
    ELSE IF Len(pcm) = 0 /\ spc.kind = "Infinity"
    THEN [exit |-> "never", offset |-> offset, pcm |-> pcm]
    ELSE LET r == decodeChannels(buf, offset, bits, pcm, sampleCount, 0)
         IN  IF r.exit = "throw" THEN r
             ELSE decodeSamples(buf, r.offset, bits, spc, r.pcm, sampleCount + 1)

NoPcmData == [null |-> TRUE]
PcmData(channels) == [null |-> FALSE, channels |-> channels]

(* the handler after new LAppWavFileHandler() and start(filePath): the
   fetch of the clip is in flight *)
NewWavFileHandler ==
    [_pcmData |-> NoPcmData, _userTimeSeconds |-> 0, _lastRms |-> "0",
     _sampleOffset |-> Double(0), _numberOfChannels |-> 0, _bitsPerSample |-> 0,
     _samplingRate |-> 0, _samplesPerChannel |-> Double(0),
     _readOffset |-> 0, result |-> "pending"]

(* loadWavFile from the point its buffer has arrived: the handler when the
   promise settles, result "true" or "false", or result "never" when the
   call does not return *)
parseWavFile(h, buf) ==
    LET fail(hh, offset)  == [hh EXCEPT !.result = "false", !._readOffset = offset]
        never(hh, offset) == [hh EXCEPT !.result = "never", !._readOffset = offset]
        fmtChunkSize == get32LittleEndian(buf, 16)
        h1 == [h EXCEPT !._numberOfChannels = get16LittleEndian(buf, 22)]
        h2 == [h1 EXCEPT !._samplingRate = get32LittleEndian(buf, 24)]
        h3 == [h2 EXCEPT !._bitsPerSample = get16LittleEndian(buf, 34)]
        afterFmt == IF fmtChunkSize > 16 THEN 36 + (fmtChunkSize - 16) ELSE 36
        scan == chunkScan(buf, afterFmt, {})
        dataChunkSize == get32LittleEndian(buf, scan.offset)
        spc == samplesPerChannel(dataChunkSize, h3._bitsPerSample, h3._numberOfChannels)
        h4 == [h3 EXCEPT !._samplesPerChannel = spc]
        length == float32ArrayLength(spc)
        h5 == [h4 EXCEPT !._pcmData = PcmData(<<>>)]
        pcm == [c \in 1..h3._numberOfChannels |-> [k \in 1..length |-> 0]]
        dec == decodeSamples(buf, scan.offset + 4, h3._bitsPerSample, spc, pcm, 0)
        h6 == [h4 EXCEPT !._pcmData = PcmData(dec.pcm)]
    IN  IF Len(buf) < 4 THEN fail(h, 0)
        ELSE IF ~getCheckSignature(buf, 0, "RIFF") THEN fail(h, 4)
        ELSE IF ~CanRead(buf, 4, 8) THEN fail(h, 4)
        ELSE IF ~getCheckSignature(buf, 8, "WAVE") THEN fail(h, 12)
        ELSE IF ~CanRead(buf, 12, 4) THEN fail(h, 12)
        ELSE IF ~getCheckSignature(buf, 12, "fmt ") THEN fail(h, 16)
        ELSE IF ~CanRead(buf, 16, 6) THEN fail(h, 16)
        ELSE IF get16LittleEndian(buf, 20) # 1 THEN fail(h, 22)
        ELSE IF ~CanRead(buf, 22, 2) THEN fail(h, 22)
        ELSE IF ~CanRead(buf, 24, 4) THEN fail(h1, 24)
        ELSE IF ~CanRead(buf, 28, 8) THEN fail(h2, 28)
        ELSE IF scan.exit = "never" THEN never(h3, scan.offset)
        ELSE IF scan.exit = "throw" THEN fail(h3, scan.offset)
        ELSE IF scan.offset >= Len(buf) THEN fail(h3, scan.offset)
        ELSE IF ~CanRead(buf, scan.offset, 4) THEN fail(h3, scan.offset)
        ELSE IF h3._numberOfChannels > 0 /\ length < 0 THEN fail(h5, scan.offset + 4)
        ELSE IF dec.exit = "never" THEN never(h6, dec.offset)
        ELSE IF dec.exit = "throw" THEN fail(h6, dec.offset)
        ELSE [h6 EXCEPT !.result = "true", !._readOffset = dec.offset]

(* the catch of loadWavFile for a rejected fetch *)
loadWavFileCatch(h) == [h EXCEPT !.result = "false"]

(***************************************************************************)
(* ModelLoader (src/lib/live2d/ModelLoader.ts).  modelFiles and rawFiles   *)
(* are the tables import.meta.glob builds from the files under /src/assets *)
(* at build time: modelFiles maps every file to the URL it is served at,   *)
(* rawFiles maps the .json and .moc3 files to their text.  A table is a    *)
(* function from its keys; a URL is never the empty string, the text of a  *)
(* file is the empty string when the file is empty.                        *)
(***************************************************************************)
assetPath(path) == "/src/assets" \o path

(* if (table[key]): the key has a value and the value is not the empty
   string; no key is a property of Object.prototype, every key starting
   with /src/assets *)
Truthy(table, key) == key \in DOMAIN table /\ table[key] # ""

getAssetUrl(a, path) ==
    IF Truthy(a.modelFiles, assetPath(path))
    THEN [kind |-> "url", path |-> path, warned |-> FALSE, isNull |-> FALSE,
          returned |-> a.modelFiles[assetPath(path)]]
    ELSE [kind |-> "url", path |-> path, warned |-> TRUE, isNull |-> FALSE,
          returned |-> path]

getAssetRaw(a, path) ==
    IF Truthy(a.rawFiles, assetPath(path))
    THEN [kind |-> "raw", path |-> path, warned |-> FALSE, isNull |-> FALSE,
          returned |-> a.rawFiles[assetPath(path)]]
    ELSE [kind |-> "raw", path |-> path, warned |-> FALSE, isNull |-> TRUE,
          returned |-> ""]

NoCall ==
    [kind |-> "none", path |-> "", warned |-> FALSE, isNull |-> FALSE,
     returned |-> ""]

(* a page whose loader is not looked at *)
NoAssets == [modelFiles |-> <<>>, rawFiles |-> <<>>, call |-> NoCall]

(***************************************************************************)
(* The state machine.  The initial state is the one LAppLive2DManager      *)
(* .initialize leaves: changeScene has created the model and called        *)
(* loadAssets, whose manifest fetch is in flight; the texture cache is     *)
(* empty.                                                                  *)
(***************************************************************************)
ModelHomeDir == "/Haru/"

(* the clip handler before any clip is started *)
IdleWav == [buf |-> <<>>, h |-> NewWavFileHandler]

(* the world in which the first model of a manager is created *)
NewWorld ==
    [m |-> NewModel, images |-> {}, tm |-> <<>>, gl |-> 0, h |-> NoHistory,
     ctx |-> TRUE]

Init ==
    /\ manifest \in Manifests
    /\ LET w == loadAssets(NewWorld, ModelHomeDir)
       IN  /\ model = w.m
           /\ images = w.images
           /\ _textures = w.tm
           /\ glTextures = w.gl
           /\ history = w.h
    /\ orphans = <<>>
    /\ assets = NoAssets
    /\ manager = NewManager
    /\ wav = IdleWav

Commit(w) ==
    /\ model' = w.m
    /\ images' = w.images
    /\ _textures' = w.tm
    /\ glTextures' = w.gl
    /\ history' = w.h
    /\ UNCHANGED <<assets, manifest, orphans, manager, wav>>

(* the world in which the callbacks of the settled fetch f run *)
Settled(f) == [World EXCEPT !.m.pending = @ \ {f}]

NotOk(w, kind) == [w EXCEPT !.h.notOk[kind] = @ + 1]

(* the manifest arrives and parses *)
ManifestLoaded ==
    /\ ManifestFetch \in model.pending
    /\ Commit(loadAssetsThen(Settled(ManifestFetch), manifest))

(* the manifest's fetch is rejected, or its parse throws *)
ManifestFailed ==
    /\ ManifestFetch \in model.pending
    /\ Commit(loadAssetsCatch(
           [Settled(ManifestFetch) EXCEPT !.h.rejected["manifest"] = @ + 1]))

(* the rig binary's response arrives, OK or not *)
ModelLoaded ==
    /\ ModelFetch \in model.pending
    /\ \E ok \in BOOLEAN :
          Commit(setupModelThen(
              IF ok THEN Settled(ModelFetch) ELSE NotOk(Settled(ModelFetch), "model"), ok))

(* an expression's response arrives: the continuation is the same for an
   OK and a non-OK response *)
ExpressionLoaded ==
    \E f \in model.pending :
        /\ f.kind = "expression"
        /\ Commit(loadExpressionThen(Settled(f), f.no))

(* the responses of the physics, pose and user data files: again one
   continuation for an OK and a non-OK response *)
PhysicsLoaded ==
    /\ PhysicsFetch \in model.pending
    /\ Commit(loadPhysicsThen(Settled(PhysicsFetch)))

PoseLoaded ==
    /\ PoseFetch \in model.pending
    /\ Commit(loadPoseThen(Settled(PoseFetch)))

UserDataLoaded ==
    /\ UserDataFetch \in model.pending
    /\ Commit(loadUserDataThen(Settled(UserDataFetch)))

(* a preloaded motion's response arrives; the engine accepts it or not *)
MotionLoaded ==
    \E f \in model.pending :
        /\ f.kind = "motion"
        /\ \E usable \in BOOLEAN :
              Commit(preLoadMotionThen(
                  IF usable THEN Settled(f) ELSE NotOk(Settled(f), "motion"),
                  f.group, f.no, usable))

(* a fetch other than the manifest's is rejected (network error): none of
   these promise chains has a catch(), so no callback of the model runs *)
FetchRejected ==
    \E f \in model.pending :
        /\ f.kind \notin {"manifest", "onDemand"}
        /\ Commit([Settled(f) EXCEPT !.h.rejected[f.kind] = @ + 1,
                                     !.h.unhandled = @ + 1])

(* an image's decode completes: its 'load' listener runs *)
ImageLoaded ==
    \E img \in images :
        LET w == [World EXCEPT !.images = @ \ {img}]
            pic == [img EXCEPT !.width = 1]
        IN  Commit(IF img.route = "miss" THEN missListener(w, pic)
                   ELSE hitListener(w, pic))

(* an image fails to load or decode: 'error' has no listener *)
ImageError ==
    \E img \in images :
        Commit([World EXCEPT !.images = @ \ {img},
                             !.h.rejected["texture"] = @ + 1])

Next ==
    \/ ManifestLoaded
    \/ ManifestFailed
    \/ ModelLoaded
    \/ ExpressionLoaded
    \/ PhysicsLoaded
    \/ PoseLoaded
    \/ UserDataLoaded
    \/ MotionLoaded
    \/ FetchRejected
    \/ ImageLoaded
    \/ ImageError

Spec == Init /\ [][Next]_vars

TypeOK ==
    /\ manifest \in Manifests
    /\ model._state \in LoadStep
    /\ model._modelSetting \in {NoSetting, manifest}
    /\ glTextures = Len(_textures)

(***************************************************************************)
(* SceneSpec: the manager.  Every scene of ModelDir serves a manifest of   *)
(* the same shape under its own directory.  changeScene drops the model it *)
(* replaces from _models and cancels nothing: the requests of a dropped    *)
(* model stay in flight, and their callbacks run with this bound to the    *)
(* dropped instance and with the manager's texture cache and GL context.   *)
(***************************************************************************)
MaxSwitches == 1

SceneManifests ==
    { [modelFileName |-> "model.moc3", expressionCount |-> e,
       physicsFileName |-> "", poseFileName |-> "", userDataFile |-> "",
       motionGroups |-> <<[name |-> MotionGroupTapBody, count |-> 1]>>,
       textures |-> TextureFiles(<<1>>), motionSound |-> "",
       hitAreas |-> {HitAreaNameHead, HitAreaNameBody}] :
        e \in {0, 1} }

SceneInit ==
    /\ manifest \in SceneManifests
    /\ LET w == loadAssets(NewWorld, ModelPath(0))
       IN  /\ model = w.m
           /\ images = w.images
           /\ _textures = w.tm
           /\ glTextures = w.gl
           /\ history = w.h
    /\ orphans = <<>>
    /\ assets = NoAssets
    /\ manager = NewManager
    /\ wav = IdleWav

(* changeScene starting the load of the new model only when the model it
   drops has nothing in flight *)
changeScene_whenIdle(index) ==
    LET fresh == [World EXCEPT !.m = NewModel, !.images = {}, !.h = NoHistory]
        w == IF model.pending = {} /\ images = {}
             THEN loadAssets(fresh, ModelPath(index))
             ELSE fresh
    IN  /\ model' = w.m
        /\ images' = w.images
        /\ history' = w.h
        /\ orphans' = IF model.pending = {} /\ images = {}
                      THEN orphans
                      ELSE Append(orphans, [m |-> model, images |-> images,
                                            late |-> FALSE])
        /\ manager' = [manager EXCEPT !._sceneIndex = index, !.drawn = FALSE,
                                      !.switches = @ + 1, !._models = 0 + 1]
        /\ UNCHANGED <<assets, manifest, _textures, glTextures, wav>>

(* changeScene pushing the new model without releaseAllModel: at(0) stays
   the model that was there *)
changeScene_keepsModels(index) ==
    LET w == loadAssets(
                 [World EXCEPT !.m = NewModel, !.images = {}, !.h = NoHistory],
                 ModelPath(index))
    IN  /\ orphans' = Append(orphans, [m |-> w.m, images |-> w.images,
                                       late |-> FALSE])
        /\ manager' = [manager EXCEPT !._sceneIndex = index, !.drawn = FALSE,
                                      !.switches = @ + 1, !._models = @ + 1]
        /\ UNCHANGED <<assets, manifest, model, images, history, _textures,
                       glTextures, wav>>

(* changeScene(index): releaseAllModel, which leaves _models empty, new
   LAppModel(), loadAssets, pushBack *)
changeScene(index) ==
    LET w == loadAssets(
                 [World EXCEPT !.m = NewModel, !.images = {}, !.h = NoHistory],
                 ModelPath(index))
    IN  IF ~manager.cubism
        THEN \* new LAppModel() throws: CubismFramework.getIdManager() is null
             /\ manager' = [manager EXCEPT !._sceneIndex = index,
                                           !.switches = @ + 1, !._models = 0]
             /\ history' = throw(World).h
             /\ UNCHANGED <<assets, manifest, model, images, orphans, _textures,
                            glTextures, wav>>
        ELSE
        /\ model' = w.m
        /\ images' = w.images
        /\ history' = w.h
        /\ orphans' = IF model.pending = {} /\ images = {}
                      THEN orphans      \* nothing of it will ever run again
                      ELSE Append(orphans, [m |-> model, images |-> images,
                                            late |-> FALSE])
        /\ manager' = [manager EXCEPT !._sceneIndex = index, !.drawn = FALSE,
                                      !.switches = @ + 1, !._models = 0 + 1]
        /\ UNCHANGED <<assets, manifest, _textures, glTextures, wav>>

(* Live2DViewerHandle.changeModel(index) *)
ChangeScene ==
    /\ manager.switches < MaxSwitches
    /\ \E index \in 0..(ModelDirSize - 1) : changeScene(index)

(* Live2DViewerHandle.nextModel() *)
NextScene ==
    /\ manager.switches < MaxSwitches
    /\ changeScene((manager._sceneIndex + 1) % ModelDirSize)

(* the world in which a callback of dropped model k runs *)
OrphanWorld(k) ==
    [World EXCEPT !.m = orphans[k].m, !.images = orphans[k].images,
                  !.h = NoHistory]

(* a callback of dropped model k whose assignment to _state lands on the
   model the manager holds *)
CommitOrphan_toActive(k, w) ==
    /\ orphans' = IF w.m.pending = {} /\ w.images = {}
                  THEN [j \in 1..(Len(orphans) - 1) |->
                           IF j < k THEN orphans[j] ELSE orphans[j + 1]]
                  ELSE [orphans EXCEPT ![k] = [m |-> w.m, images |-> w.images,
                                               late |-> TRUE]]
    /\ model' = [model EXCEPT !._state = w.m._state]
    /\ _textures' = w.tm
    /\ glTextures' = w.gl
    /\ UNCHANGED <<assets, manifest, images, history, manager, wav>>

(* what a callback of dropped model k leaves: the fields of its own
   instance, the manager's texture cache and the GL context.  A dropped
   model with nothing left in flight is unreachable and is forgotten. *)
CommitOrphan(k, w) ==
    /\ orphans' = IF w.m.pending = {} /\ w.images = {}
                  THEN [j \in 1..(Len(orphans) - 1) |->
                           IF j < k THEN orphans[j] ELSE orphans[j + 1]]
                  ELSE [orphans EXCEPT ![k] = [m |-> w.m, images |-> w.images,
                                               late |-> TRUE]]
    /\ _textures' = w.tm
    /\ glTextures' = w.gl
    /\ UNCHANGED <<assets, manifest, model, images, history, manager, wav>>

(* a response for a dropped model arrives, one the callbacks can use *)
OrphanFetchSettled ==
    \E k \in 1..Len(orphans) : \E f \in orphans[k].m.pending :
        LET w == [OrphanWorld(k) EXCEPT !.m.pending = @ \ {f}]
        IN  CommitOrphan(k, fetchThen(w, f, manifest, TRUE))

(* an image of a dropped model is decoded *)
OrphanImageLoaded ==
    \E k \in 1..Len(orphans) : \E img \in orphans[k].images :
        LET w   == [OrphanWorld(k) EXCEPT !.images = @ \ {img}]
            pic == [img EXCEPT !.width = 1]
        IN  CommitOrphan(k, IF img.route = "miss" THEN missListener(w, pic)
                            ELSE hitListener(w, pic))

(* a fetch startMotion issued settles; neither a response nor a rejection
   changes anything the program reads *)
OnDemandLoaded ==
    \E f \in model.pending :
        /\ f.kind = "onDemand"
        /\ Commit(startMotionThen(Settled(f)))

(* what a pointer event's handler leaves *)
CommitPointer(r) ==
    /\ model' = r.w.m
    /\ images' = r.w.images
    /\ history' = r.w.h
    /\ manager' = r.mgr
    /\ UNCHANGED <<assets, manifest, _textures, glTextures, orphans, wav>>

(* the 'pointerdown' listener of the document *)
PointBegan ==
    \E pageX \in PageXs, pageY \in PageYs :
       CommitPointer(onPointBegan(World, delivered(manager, "began", pageX, pageY),
                                  pageX, pageY))

(* the 'pointermove' listener *)
PointMoved ==
    \E pageX \in PageXs, pageY \in PageYs :
       CommitPointer(onPointMoved(World, delivered(manager, "moved", pageX, pageY),
                                  pageX, pageY))

(* the 'pointerup' listener for a pointer released at (pageX, pageY):
   onPointEnded, with onTap at that point *)
PointEndedAt(pageX, pageY) ==
    \E hitHead \in BOOLEAN, hitBody \in BOOLEAN :
    \E no \in RandomIndex(model, MotionGroupTapBody) :
       CommitPointer(onPointEnded(World, delivered(manager, "ended", pageX, pageY),
                                  pageX, pageY, hitHead, hitBody, no))

PointEnded == \E pageX \in PageXs, pageY \in PageYs : PointEndedAt(pageX, pageY)

(* a pointer released at the canvas' corner *)
Tapped == PointEndedAt(CanvasOffsetLeft, CanvasOffsetTop)

(* one turn of the loop run() starts: onUpdate, then requestAnimationFrame,
   which an exception of onUpdate skips *)
Frame ==
    /\ manager.running
    /\ \E finished \in BOOLEAN :
       \E no \in RandomIndex(model, MotionGroupIdle) :
          LET w     == update(World, finished, no)
              threw == w.h.unhandled # history.unhandled
              drew  == IF threw THEN "skipped" ELSE draw(w)
          IN  /\ model' = w.m
              /\ images' = w.images
              /\ history' = IF drew = "throw" THEN throw(w).h ELSE w.h
              /\ manager' = [manager EXCEPT
                                !.running = ~threw /\ drew # "throw",
                                !.drawn = @ \/ drew = "drawn",
                                !.skipped = @ \/ (/\ model._state # CompleteSetup
                                                  /\ model.pending = {}
                                                  /\ images = {})]
    /\ UNCHANGED <<assets, manifest, _textures, glTextures, orphans, wav>>

(* the manifests of SceneManifests name no physics, pose or user data
   file, and the requests of the model the manager holds are answered or
   stay unanswered; a response may still be one the engine cannot use *)
SceneNext ==
    \/ ManifestLoaded
    \/ ModelLoaded
    \/ ExpressionLoaded
    \/ MotionLoaded
    \/ ImageLoaded
    \/ ChangeScene
    \/ NextScene
    \/ OrphanFetchSettled
    \/ OrphanImageLoaded
    \/ Frame

SceneSpec == SceneInit /\ [][SceneNext]_vars

(***************************************************************************)
(* TapSpec: one model, loaded while the pointer is released over it and    *)
(* while the frame loop runs.                                              *)
(***************************************************************************)
TapManifests ==
    { [modelFileName |-> "model.moc3", expressionCount |-> e,
       physicsFileName |-> "", poseFileName |-> "", userDataFile |-> "",
       motionGroups |-> mg, textures |-> TextureFiles(<<1>>),
       motionSound |-> snd, hitAreas |-> areas] :
        e \in {0, 1},
        mg \in { <<[name |-> MotionGroupTapBody, count |-> c]>> : c \in 0..MaxMotions }
              \cup { <<[name |-> MotionGroupIdle, count |-> 1],
                       [name |-> MotionGroupTapBody, count |-> 1]>> },
        snd \in {"", "tap.wav"},
        areas \in { {HitAreaNameHead, HitAreaNameBody}, {HitAreaNameBody} } }

TapInit ==
    /\ manifest \in TapManifests
    /\ LET w == loadAssets(NewWorld, ModelPath(0))
       IN  /\ model = w.m
           /\ images = w.images
           /\ _textures = w.tm
           /\ glTextures = w.gl
           /\ history = w.h
    /\ orphans = <<>>
    /\ assets = NoAssets
    /\ manager = NewManager
    /\ wav = IdleWav

TapNext ==
    \/ ManifestLoaded
    \/ ManifestFailed
    \/ ModelLoaded
    \/ ExpressionLoaded
    \/ MotionLoaded
    \/ ImageLoaded
    \/ OnDemandLoaded
    \/ Tapped
    \/ Frame

TapSpec == TapInit /\ [][TapNext]_vars

(***************************************************************************)
(* PointerSpec: the pointer listeners of Live2DViewer on a manager whose   *)
(* model loads.  The listeners are on the document, so pointer events      *)
(* arrive in any order and at any stage of the load.  The model has one    *)
(* hit area, the head.                                                     *)
(***************************************************************************)
PointerManifest ==
    [modelFileName |-> "model.moc3", expressionCount |-> 1,
     physicsFileName |-> "", poseFileName |-> "", userDataFile |-> "",
     motionGroups |-> <<[name |-> MotionGroupTapBody, count |-> 1]>>,
     textures |-> TextureFiles(<<1>>), motionSound |-> "",
     hitAreas |-> {HitAreaNameHead}]

PointerInit ==
    /\ manifest = PointerManifest
    /\ LET w == loadAssets(NewWorld, ModelPath(0))
       IN  /\ model = w.m
           /\ images = w.images
           /\ _textures = w.tm
           /\ glTextures = w.gl
           /\ history = w.h
    /\ orphans = <<>>
    /\ assets = NoAssets
    /\ manager = NewManager
    /\ wav = IdleWav

PointerNext ==
    \/ ManifestLoaded
    \/ ModelLoaded
    \/ ExpressionLoaded
    \/ MotionLoaded
    \/ ImageLoaded
    \/ PointBegan
    \/ PointMoved
    \/ PointEnded

PointerSpec == PointerInit /\ [][PointerNext]_vars

(***************************************************************************)
(* NoContextSpec: a Live2DViewer whose canvas gives no WebGL context.      *)
(* initialize has returned false before initializeCubism and changeScene:  *)
(* the manager holds no model and run() is not called, but the viewer      *)
(* keeps the manager in managerRef and registers the pointer listeners.    *)
(* CubismFramework is a static of the engine: it is initialized if another *)
(* manager of the page has initialized it.  The scenes serve a manifest    *)
(* with one texture and no expressions or motions.                         *)
(***************************************************************************)
FailedManager(cubism) ==
    [NewManager EXCEPT !._gl = FALSE, !.running = FALSE, !._models = 0,
                       !.cubism = cubism]

NoContextInit ==
    /\ manifest = [PointerManifest EXCEPT !.expressionCount = 0,
                                          !.motionGroups = <<>>]
    /\ model = NewModel
    /\ images = {}
    /\ _textures = <<>>
    /\ glTextures = 0
    /\ history = NoHistory
    /\ orphans = <<>>
    /\ assets = NoAssets
    /\ \E cubism \in BOOLEAN : manager = FailedManager(cubism)
    /\ wav = IdleWav

NoContextNext ==
    \/ ChangeScene
    \/ NextScene
    \/ PointBegan
    \/ PointMoved
    \/ PointEnded
    \/ ManifestLoaded
    \/ ModelLoaded
    \/ ImageLoaded

NoContextSpec == NoContextInit /\ [][NoContextNext]_vars

(***************************************************************************)
(* AssetSpec: getAssetUrl and getAssetRaw called with any of LogicalPaths  *)
(* on the tables of any set of the files of AssetFiles.                    *)
(***************************************************************************)
AssetFiles ==
    {"/Haru/Haru.model3.json", "/Haru/Haru.moc3", "/Haru/texture_00.png"}

(* the files the second glob matches *)
RawFiles == {"/Haru/Haru.model3.json", "/Haru/Haru.moc3"}

(* the text of a .json or .moc3 file: empty, or not *)
Contents == {"", "{}"}

(* paths of files, of a file that does not exist, without the leading
   slash, and the empty path *)
LogicalPaths ==
    AssetFiles \cup {"/Haru/missing.json", "Haru/Haru.moc3", ""}

AssetTables ==
    { [modelFiles |-> [k \in {assetPath(f) : f \in files} |-> "/dist" \o k],
       rawFiles |-> raw,
       call |-> NoCall] :
        files \in SUBSET AssetFiles,
        raw \in UNION { [{assetPath(f) : f \in fs} -> Contents] :
                          fs \in SUBSET RawFiles } }

AssetInit ==
    /\ manifest = NoSetting
    /\ model = NewModel
    /\ images = {}
    /\ _textures = <<>>
    /\ glTextures = 0
    /\ history = NoHistory
    /\ orphans = <<>>
    /\ manager = NewManager
    /\ wav = IdleWav
    /\ \E a \in AssetTables :
          /\ DOMAIN a.rawFiles =
                DOMAIN a.modelFiles \cap {assetPath(f) : f \in RawFiles}
          /\ assets = a

CommitCall(call) ==
    /\ assets' = [assets EXCEPT !.call = call]
    /\ UNCHANGED <<manifest, model, images, _textures, glTextures, history,
                   orphans, manager, wav>>

UrlRequested ==
    \E path \in LogicalPaths : CommitCall(getAssetUrl(assets, path))

RawRequested ==
    \E path \in LogicalPaths : CommitCall(getAssetRaw(assets, path))

AssetNext ==
    \/ UrlRequested
    \/ RawRequested

AssetSpec == AssetInit /\ [][AssetNext]_vars

(***************************************************************************)
(* Vocabulary of the properties                                            *)
(***************************************************************************)
E == manifest.expressionCount
G == Len(manifest.motionGroups)
M == SumCounts(manifest.motionGroups)
T == Len(manifest.textures)

(* the step issues a fetch of one of the kinds *)
Issues(kinds) == \E f \in model'.pending \ model.pending : f.kind \in kinds

InFlight(m, kinds) == \E f \in m.pending : f.kind \in kinds

(* nothing is in flight: no callback of the pipeline will ever run again *)
(***************************************************************************)
(* WavSpec: LAppWavFileHandler loading clips.  The server's answer to the  *)
(* fetch of a clip is any of WavBuffers: buffers built from a shape, which *)
(* says what the header declares, which chunks follow and where the        *)
(* buffer is cut short.                                                    *)
(***************************************************************************)
MaxChannels == 2
MaxClips == 2

LE16(v) == <<v % 256, (v \div 256) % 256>>

(* the four bytes of the 32-bit two's complement of v, lowest first *)
LE32(v) == <<v % 256, (v \div 256) % 256, (v \div 65536) % 256,
             (v \div 16777216) % 256>>

(* n sample bytes; fill 0 gives the bytes of 16-bit silence *)
Bytes(n, fill) == [i \in 1..n |-> (i * fill) % 256]

NoCut == -1

NoChunk == [present |-> FALSE, size |-> 0, payload |-> 0, fill |-> 64]
Chunk(size, payload) ==
    [present |-> TRUE, size |-> size, payload |-> payload, fill |-> 64]

(* a 16-bit mono clip of two samples at 8000 Hz, 48 bytes *)
PlainShape ==
    [sig |-> "none", format |-> 1, fmtSize |-> 16, channels |-> 1, bits |-> 16,
     rate |-> 8000, junk |-> NoChunk, data |-> Chunk(4, 4), cut |-> NoCut]

WavShapes ==
    \* a chunk before 'data', or no 'data' chunk at all
    { [PlainShape EXCEPT !.fmtSize = f, !.junk = j, !.data = d] :
        f \in {16, 18},
        j \in {NoChunk, Chunk(0, 0), Chunk(4, 4), Chunk(-8, 0), Chunk(-16, 0)},
        d \in {NoChunk, Chunk(4, 4)} }
    \cup
    \* what the header declares against what the 'data' chunk holds
    { [PlainShape EXCEPT !.channels = c, !.bits = b, !.data = d] :
        c \in 0..MaxChannels, b \in {0, 8, 16, 24, 32},
        d \in {Chunk(0, 0), Chunk(2, 2), Chunk(4, 2), Chunk(-1, 2)} }
    \cup
    \* a wrong signature, a format code other than PCM, a buffer cut short
    { [PlainShape EXCEPT !.sig = g] : g \in {"RIFF", "WAVE", "fmt "} }
    \cup { [PlainShape EXCEPT !.format = 3] }
    \cup { [PlainShape EXCEPT !.cut = n] : n \in {0, 3, 4, 11, 15, 21, 30, 36, 40, 46} }

ChunkBytes(name, c) ==
    IF c.present THEN Signature(name) \o LE32(c.size) \o Bytes(c.payload, c.fill)
    ELSE <<>>

WavBuffer(shape) ==
    LET sig(name) == IF shape.sig = name THEN Signature("") ELSE Signature(name)
        full == sig("RIFF") \o LE32(0) \o sig("WAVE") \o sig("fmt ")
                \o LE32(shape.fmtSize) \o LE16(shape.format)
                \o LE16(shape.channels) \o LE32(shape.rate) \o LE32(0) \o LE16(0)
                \o LE16(shape.bits) \o [i \in 1..(shape.fmtSize - 16) |-> 0]
                \o ChunkBytes("LIST", shape.junk) \o ChunkBytes("data", shape.data)
    IN  IF shape.cut = NoCut THEN full ELSE SubSeq(full, 1, shape.cut)

(* start(filePath): the playback position goes back to 0, loadWavFile drops
   the samples the handler holds and asks for the new clip *)
start(h) ==
    [h EXCEPT !._sampleOffset = Double(0), !._userTimeSeconds = 0,
              !._lastRms = "0", !._pcmData = NoPcmData, !.result = "pending"]

WavInit ==
    /\ manifest = NoSetting
    /\ model = NewModel
    /\ images = {}
    /\ _textures = <<>>
    /\ glTextures = 0
    /\ history = NoHistory
    /\ orphans = <<>>
    /\ assets = NoAssets
    /\ manager = NewManager
    /\ \E shape \in WavShapes :
          wav = [buf |-> WavBuffer(shape), shape |-> shape, clips |-> 1,
                 arrived |-> FALSE, h |-> NewWavFileHandler]

(* arrived: response.arrayBuffer() has resolved for the clip *)
CommitWav(h, arrived) ==
    /\ wav' = [wav EXCEPT !.h = h, !.arrived = arrived]
    /\ UNCHANGED <<assets, manifest, model, images, _textures, glTextures, history,
                   orphans, manager>>

(* the clip's bytes arrive and loadWavFile runs to its end, if it has one *)
WavLoaded ==
    /\ wav.h.result = "pending"
    /\ CommitWav(parseWavFile(wav.h, wav.buf), TRUE)

(* the fetch of the clip is rejected *)
WavFetchFailed ==
    /\ wav.h.result = "pending"
    /\ CommitWav(loadWavFileCatch(wav.h), FALSE)

(* another clip is started.  A loadWavFile that does not return keeps the
   thread: nothing runs after it. *)
WavStarted ==
    /\ wav.h.result \in {"true", "false"}
    /\ wav.clips < MaxClips
    /\ \E shape \in WavShapes :
          wav' = [buf |-> WavBuffer(shape), shape |-> shape,
                  clips |-> wav.clips + 1, arrived |-> FALSE,
                  h |-> start(wav.h)]
    /\ UNCHANGED <<assets, manifest, model, images, _textures, glTextures, history,
                   orphans, manager>>

WavNext ==
    \/ WavLoaded
    \/ WavFetchFailed
    \/ WavStarted

WavSpec == WavInit /\ [][WavNext]_vars

(***************************************************************************)
(* ClipSpec: LAppWavFileHandler as LAppModel drives it.  startMotion calls *)
(* start(url) for a motion with a sound and does not wait for the load;    *)
(* LAppModel.update calls update(deltaTimeSeconds) and getRms() on every   *)
(* frame.  Time is counted in TimeUnit-ths of a second, so that            *)
(* _userTimeSeconds * _samplingRate is exact; _lastRms is kept as the kind *)
(* of double it is: "0", "positive" or "NaN".                              *)
(***************************************************************************)
TimeUnit == 2
MaxTicks == 3

(* deltaTimeSeconds of LAppPal: Date.now() has millisecond resolution, so
   two frames can fall on the same reading *)
Deltas == 0..TimeUnit

(* a >= b, for a double a that is a number *)
AtLeast(a, b) ==
    CASE b.kind = "number"    -> a.n * b.d >= b.n * a.d
      [] b.kind = "-Infinity" -> TRUE
      [] OTHER                -> FALSE

(* goalOffset > _samplesPerChannel, for the integer goalOffset *)
Above(goalOffset, spc) ==
    CASE spc.kind = "number"    -> goalOffset * spc.d > spc.n
      [] spc.kind = "-Infinity" -> TRUE
      [] OTHER                  -> FALSE

(* the two loops of update: the sum of pcm * pcm over the channels and the
   samples from _sampleOffset up to goalOffset.  _pcmData[channelCount]
   [sampleCount] throws TypeError where _pcmData has no array for the
   channel, and is undefined, which makes the sum NaN, where sampleCount is
   not an index of the array *)
sumOfSquares(h, goalOffset) ==
    LET from == h._sampleOffset
        pcm == h._pcmData.channels
        first == from.n \div from.d
        last == (-((-goalOffset.n) \div goalOffset.d)) - 1
        runs == from.n * goalOffset.d < goalOffset.n * from.d
        read == 1..h._numberOfChannels
    IN  IF ~runs \/ h._numberOfChannels <= 0 THEN "0"
        ELSE IF Len(pcm) < h._numberOfChannels THEN "throw"
        ELSE IF from.n % from.d # 0 THEN "NaN"
        ELSE IF \E c \in read : \E i \in first..last : i < 0 \/ i >= Len(pcm[c])
        THEN "NaN"
        ELSE IF \A c \in read : \A i \in first..last : pcm[c][i + 1] = 0
        THEN "0"
        ELSE "positive"

(* Math.sqrt(rms / (_numberOfChannels * (goalOffset - _sampleOffset))) *)
rootMeanSquare(h, goalOffset) ==
    LET sum == sumOfSquares(h, goalOffset)
        from == h._sampleOffset
        span == goalOffset.n * from.d - from.n * goalOffset.d
    IN  IF sum # "0" THEN sum
        ELSE IF h._numberOfChannels = 0 \/ span = 0 THEN "NaN"    \* 0 / 0
        ELSE "0"

(* LAppWavFileHandler.update(deltaTimeSeconds): the handler after the call
   and what the call returned, "throw" for an exception *)
LAppWavFileHandler_update(h, deltaTimeSeconds) ==
    LET spc == h._samplesPerChannel
        time == h._userTimeSeconds + deltaTimeSeconds
        floor == (time * h._samplingRate) \div TimeUnit
        goalOffset == IF Above(floor, spc) THEN spc ELSE Double(floor)
        rms == rootMeanSquare(h, goalOffset)
    IN  IF h._pcmData.null \/ AtLeast(h._sampleOffset, spc)
        THEN [h |-> [h EXCEPT !._lastRms = "0"], returned |-> "false"]
        ELSE IF rms = "throw"
        THEN [h |-> [h EXCEPT !._userTimeSeconds = time], returned |-> "throw"]
        ELSE [h |-> [h EXCEPT !._userTimeSeconds = time, !._lastRms = rms,
                              !._sampleOffset = goalOffset],
              returned |-> "true"]

getRms(h) == h._lastRms

(* the clips the motions name: mono clips of 16-bit and 8-bit samples and
   of silence, clips of other sample widths, a clip whose 'data' chunk is
   shorter than it declares, and files that are no clip *)
ClipShapes ==
    { [PlainShape EXCEPT !.rate = r, !.data = d] :
        r \in {1, 2}, d \in {Chunk(4, 4), [Chunk(4, 4) EXCEPT !.fill = 0]} }
    \cup { [PlainShape EXCEPT !.rate = 2, !.bits = b] : b \in {0, 8, 32} }
    \cup { [PlainShape EXCEPT !.rate = 2, !.data = Chunk(4, 2)],
           [PlainShape EXCEPT !.channels = 2, !.data = NoChunk],
           [PlainShape EXCEPT !.sig = "RIFF"] }

(* wav in ClipSpec: the handler; the loads whose fetch is in flight; the
   loads that have settled, with what their promise resolved to; the clip
   started last; what the last update returned; whether an update since the
   last start has seen _sampleOffset at _samplesPerChannel *)
ClipInit ==
    /\ manifest = NoSetting
    /\ model = NewModel
    /\ images = {}
    /\ _textures = <<>>
    /\ glTextures = 0
    /\ history = NoHistory
    /\ orphans = <<>>
    /\ assets = NoAssets
    /\ manager = NewManager
    /\ \E shape \in ClipShapes :
          wav = [h |-> NewWavFileHandler, loads |-> {[id |-> 1, shape |-> shape]},
                 settled |-> {}, clips |-> 1, shape |-> shape, ticks |-> 0,
                 returned |-> "none", ended |-> FALSE]

(* the thread is free: no call is in a loop that does not end, and no
   exception has left the frame loop *)
ClipRuns == wav.h.result # "never" /\ wav.returned # "throw"

CommitClip(next) ==
    /\ wav' = next
    /\ UNCHANGED <<assets, manifest, model, images, _textures, glTextures, history,
                   orphans, manager>>

(* the bytes of a clip arrive and its loadWavFile runs to its end *)
ClipLoaded ==
    /\ ClipRuns
    /\ \E load \in wav.loads :
          LET h == parseWavFile(wav.h, WavBuffer(load.shape))
          IN  CommitClip([wav EXCEPT !.h = h, !.loads = @ \ {load},
                              !.settled = @ \cup {<<load.id, h.result>>}])

(* the fetch of a clip is rejected *)
ClipFetchFailed ==
    /\ ClipRuns
    /\ \E load \in wav.loads :
          CommitClip([wav EXCEPT !.h = loadWavFileCatch(wav.h),
                                 !.loads = @ \ {load},
                                 !.settled = @ \cup {<<load.id, "rejected">>}])

(* startMotion starts the clip of another motion, whether or not the load
   of the clip before has settled *)
ClipStarted ==
    /\ ClipRuns
    /\ wav.clips < MaxClips
    /\ \E shape \in ClipShapes :
          CommitClip([wav EXCEPT !.h = start(wav.h),
                                 !.loads = @ \cup {[id |-> wav.clips + 1,
                                                    shape |-> shape]},
                                 !.clips = @ + 1, !.shape = shape,
                                 !.ended = FALSE])

(* a frame: LAppModel.update calls update(deltaTimeSeconds) and getRms() *)
ClipTick ==
    /\ ClipRuns
    /\ wav.ticks < MaxTicks
    /\ \E deltaTimeSeconds \in Deltas :
          LET r == LAppWavFileHandler_update(wav.h, deltaTimeSeconds)
              atEnd == /\ ~r.h._pcmData.null
                       /\ AtLeast(r.h._sampleOffset, r.h._samplesPerChannel)
          IN  CommitClip([wav EXCEPT !.h = r.h, !.returned = r.returned,
                                     !.ticks = @ + 1,
                                     !.ended = @ \/ atEnd])

ClipNext ==
    \/ ClipLoaded
    \/ ClipFetchFailed
    \/ ClipStarted
    \/ ClipTick

ClipSpec == ClipInit /\ [][ClipNext]_vars

(***************************************************************************)
(* CacheSpec: LAppTextureManager with clients that ask for textures, the   *)
(* decodes completing in any order, and release().  The GL context stays   *)
(* in place: release() is the texture manager's own.                       *)
(***************************************************************************)
MaxRequests == 2
MaxReleases == 1

CacheFiles == {"/Haru/" \o TextureName(0), "/Haru/" \o TextureName(1)}
ImageWidths == {64, 128}

(* the records cache t holds for the key of r *)
RecordsOf(t, r) ==
    { t[k] : k \in { j \in 1..Len(t) : SameKey(t[j], r.fileName, r.usePremultiply) } }

CacheInit ==
    /\ manifest = NoSetting
    /\ model = NewModel
    /\ images = {}
    /\ _textures = <<>>
    /\ glTextures = 0
    /\ history = NoHistory
    /\ orphans = <<>>
    /\ assets = NoAssets
    /\ manager = NewManager
    /\ wav = IdleWav

CommitCache(w) ==
    /\ images' = w.images
    /\ _textures' = w.tm
    /\ glTextures' = w.gl
    /\ history' = w.h
    /\ UNCHANGED <<assets, manifest, model, orphans, manager, wav>>

(* a client calls createTextureFromPngFile(fileName, usePremultiply, cb) *)
TextureRequested ==
    /\ Len(history.requests) < MaxRequests
    /\ \E fileName \in CacheFiles, usePremultiply \in BOOLEAN :
          LET req == Len(history.requests) + 1
              r == [fileName |-> fileName, usePremultiply |-> usePremultiply,
                    epoch |-> history.releases,
                    present |-> RecordsOf(_textures,
                                    [fileName |-> fileName,
                                     usePremultiply |-> usePremultiply])]
              w == createTextureFromPngFile(World, fileName, usePremultiply,
                                            ClientCallback(req))
          IN  CommitCache([w EXCEPT !.h.requests = Append(@, r)])

(* the image of a request is decoded: its 'load' listener runs *)
TextureDecoded ==
    \E img \in images, width \in ImageWidths :
        LET w == [World EXCEPT !.images = @ \ {img}]
            pic == [img EXCEPT !.width = width]
        IN  CommitCache(IF img.route = "miss" THEN missListener(w, pic)
                        ELSE hitListener(w, pic))

(* the image of a request fails: 'error' has no listener *)
TextureFailed ==
    \E img \in images :
        CommitCache([World EXCEPT !.images = @ \ {img},
                                 !.h.rejected["texture"] = @ + 1])

(* LAppTextureManager.release() *)
TexturesReleased ==
    /\ history.releases < MaxReleases
    /\ CommitCache(release(World))

CacheNext ==
    \/ TextureRequested
    \/ TextureDecoded
    \/ TextureFailed
    \/ TexturesReleased

CacheSpec == CacheInit /\ [][CacheNext]_vars

Quiescent == model.pending = {} /\ images = {}

Failures(kinds) ==
    LET RECURSIVE Sum(_)
        Sum(ks) == IF ks = {} THEN 0
                   ELSE LET k == CHOOSE x \in ks : TRUE
                        IN  history.notOk[k] + history.rejected[k] + Sum(ks \ {k})
    IN  Sum(kinds)

(* every request so far got an OK, usable answer *)
AllSucceeded == Failures(Kinds) = 0

(* the manifest is one whose three fan-out stages each have a completion to
   wait for or, for motions, no group at all *)
EveryStageHasWork ==
    /\ manifest.modelFileName # ""
    /\ T >= 1 /\ \A i \in 1..T : manifest.textures[i] # ""
    /\ (G = 0 \/ M >= 1)

(* settled preloaded motions: one completion callback each *)
MotionArrivals == model._motionCount + history.notOk["motion"]

(***************************************************************************)
(* C1: for every manifest with E expressions, M motions and T textures     *)
(* (each >= 0) whose fetches all succeed, the pipeline ends in             *)
(* CompleteSetup with _expressionCount = E, _motionCount = M and           *)
(* _textureCount = T, whatever the arrival order.  Stated on the final     *)
(* states: once every request has succeeded and nothing is in flight, that *)
(* terminal state has been reached.                                        *)
(***************************************************************************)
C1_AllSucceedReachesReady ==
    (manifest.modelFileName # "" /\ AllSucceeded /\ Quiescent) =>
        /\ model._state = CompleteSetup
        /\ model._expressionCount = E
        /\ model._motionCount = M
        /\ model._textureCount = T

(***************************************************************************)
(* C2: in each fan-out stage the successor is entered at most once, and by *)
(* the completion callback that brings the number of completions to the    *)
(* stage's number of sub-resources; every other completion callback leaves *)
(* _state unchanged and starts nothing (no call of the successor, no new   *)
(* fetch, no new image).                                                   *)
(***************************************************************************)
C2_CallbackStep ==
    /\ (model'._expressionCount # model._expressionCount) =>
          IF model'._expressionCount = E
          THEN /\ history.physicsCalls = 0
               /\ history'.physicsCalls = 1
          ELSE /\ model'._state = model._state
               /\ history'.physicsCalls = history.physicsCalls
               /\ model'.pending \subseteq model.pending
    /\ (MotionArrivals' # MotionArrivals) =>
          IF MotionArrivals' = M
          THEN /\ history.rendererCalls = 0 /\ history.setupTexturesCalls = 0
               /\ history'.rendererCalls = 1 /\ history'.setupTexturesCalls = 1
          ELSE /\ model'._state = model._state
               /\ history'.rendererCalls = history.rendererCalls
               /\ history'.setupTexturesCalls = history.setupTexturesCalls
               /\ images' = images
    /\ (model'._textureCount # model._textureCount) =>
          IF model'._textureCount = T
          THEN /\ history.completeSets = 0
               /\ history'.completeSets = 1
               /\ model'._state = CompleteSetup
          ELSE /\ model'._state = model._state
               /\ history'.completeSets = history.completeSets

C2_SuccessorEnteredOnce ==
    /\ [](/\ history.physicsCalls <= 1
          /\ history.rendererCalls <= 1
          /\ history.setupTexturesCalls <= 1
          /\ history.completeSets <= 1)
    /\ [][C2_CallbackStep]_vars

C2_Witness ==
    /\ E = MaxExpressions /\ M = MaxMotions /\ T = MaxTextures
    /\ history.notOk["motion"] = 1
    /\ history.physicsCalls = 1
    /\ history.rendererCalls = 1
    /\ history.completeSets = 1

(***************************************************************************)
(* C3: one failed fan-out sub-resource (an expression or motion fetch      *)
(* rejected with a network error, or a texture image that fails to decode) *)
(* does not abort the pipeline: when everything else has completed the     *)
(* model is Ready.                                                         *)
(***************************************************************************)
C3_OneFailureStillReady ==
    (/\ EveryStageHasWork
     /\ Quiescent
     /\ Failures(Kinds \ {"expression", "motion", "texture"}) = 0
     /\ history.notOk["motion"] = 0
     /\ history.rejected["expression"] + history.rejected["motion"]
          + history.rejected["texture"] = 1)
    => model._state = CompleteSetup

(***************************************************************************)
(* C4: with M >= 1 preloaded motions of which k have failed so far (no     *)
(* usable motion in the response), _allMotionCount is M - k, and the       *)
(* motion stage has completed (LoadTexture entered: renderer created,      *)
(* textures requested) exactly when the other M - k motions have           *)
(* succeeded.                                                              *)
(***************************************************************************)
C4_MotionStageReducedTotal ==
    (M >= 1 /\ model._state >= WaitLoadMotion /\ model._model) =>
        LET k == history.notOk["motion"]
        IN  /\ model._allMotionCount = M - k
            /\ (model._state >= LoadTexture) <=> (model._motionCount = M - k)
            /\ (history.rendererCalls = 1) <=> (model._motionCount = M - k)

C4_Witness ==
    /\ M = MaxMotions
    /\ history.notOk["motion"] = 1
    /\ model._motionCount = M - 1
    /\ model._state >= LoadTexture

(***************************************************************************)
(* C5: a model whose manifest defines no expressions, no motion groups and *)
(* no textures reaches Ready without any fan-out callback.                 *)
(***************************************************************************)
C5_EmptyManifestReachesReady ==
    (/\ manifest.modelFileName # ""
     /\ E = 0 /\ G = 0 /\ T = 0
     /\ AllSucceeded /\ Quiescent)
    => model._state = CompleteSetup

(***************************************************************************)
(* C6: a fan-out stage with nothing to load is left in the step that       *)
(* enters it; in particular with motion groups whose motion counts add up  *)
(* to 0 the model is never seen waiting in WaitLoadMotion.                 *)
(***************************************************************************)
C6_ZeroMotionStageSkipped ==
    /\ (E = 0) => model._state # WaitLoadExpression
    /\ (G >= 1 /\ M = 0) => model._state # WaitLoadMotion

(***************************************************************************)
(* C7: if the fetch of the rig binary fails (rejected, or a non-OK         *)
(* response) the model's state is never CompleteSetup.                     *)
(***************************************************************************)
C7_RigFailureNeverReady ==
    (history.rejected["model"] > 0 \/ history.notOk["model"] > 0)
    => model._state # CompleteSetup

C7_Witness ==
    /\ history.notOk["model"] = 1
    /\ E = MaxExpressions /\ model._expressionCount = E
    /\ model._state = SetupLayout
    /\ Quiescent

(***************************************************************************)
(* C8: if the manifest's fetch or parse fails, or the parsed manifest      *)
(* names no rig binary, the state is never CompleteSetup, and the failure  *)
(* is absorbed: logged by the catch, with nothing left unhandled.          *)
(***************************************************************************)
C8_ManifestFailureNeverReady ==
    /\ (history.rejected["manifest"] > 0) =>
          /\ model._state # CompleteSetup
          /\ history.logged > 0
          /\ history.unhandled = 0
    /\ (model._modelSetting # NoSetting /\ model._modelSetting.modelFileName = "") =>
          /\ model._state # CompleteSetup
          /\ history.unhandled = 0

C8_Witness ==
    /\ history.rejected["manifest"] = 1
    /\ model._state = LoadAssets
    /\ Quiescent

(***************************************************************************)
(* C9: every assignment to _state stores a LoadStep that is not smaller    *)
(* than the one it replaces.                                               *)
(***************************************************************************)
C9_StateStep == model'._state >= model._state

C9_StateNeverRegresses ==
    /\ [](~history.regressed)
    /\ [][C9_StateStep]_vars

C9_Witness ==
    /\ model._state = CompleteSetup
    /\ G = 0
    /\ manifest.physicsFileName # "" /\ manifest.poseFileName # ""
    /\ manifest.userDataFile # ""

(***************************************************************************)
(* C10: each fan-in counter stays within its total: _expressionCount <= E, *)
(* _motionCount <= _allMotionCount and _textureCount <= T.                 *)
(***************************************************************************)
C10_CompletedWithinTotal ==
    /\ model._expressionCount <= E
    /\ model._motionCount <= model._allMotionCount
    /\ model._textureCount <= T

C10_Witness ==
    /\ E >= 1 /\ model._expressionCount = E
    /\ G = 2 /\ history.notOk["motion"] = 1
    /\ model._motionCount >= 1 /\ model._motionCount = model._allMotionCount
    /\ T >= 1 /\ model._textureCount = T

(***************************************************************************)
(* C11: a motion is started on demand only once the model is Ready: a      *)
(* pointer-up that arrives while the model is in an earlier load state     *)
(* makes no call of startMotionPriority and starts no audio clip, whatever *)
(* the hit test answers.                                                   *)
(***************************************************************************)
C11_NoMotionStartBeforeReady ==
    /\ history.earlyStarts = 0
    /\ history.earlyVoices = 0


(***************************************************************************)
(* The texture cache and its clients (CacheSpec).                          *)
(***************************************************************************)
(* a step in which a client's callback is called / a request is made /
   release() is called *)
DeliveryStep == Len(history.delivered') = Len(history.delivered) + 1
RequestStep == Len(history.requests') = Len(history.requests) + 1
ReleaseStep == history.releases' = history.releases + 1

(* what the callback called in this step received *)
Delivered == history.delivered'[Len(history.delivered')]

(***************************************************************************)
(* Scene switches while a model is loading (SceneSpec).  A step that       *)
(* changes orphans and leaves manager alone is a callback of a dropped     *)
(* model: changeScene counts the switch in manager, every other action     *)
(* leaves orphans alone.                                                   *)
(***************************************************************************)
OrphanCallbackStep == manager' = manager /\ orphans' # orphans

(* requests (fetches and image decodes) the dropped models have in flight *)
OrphanRequests(os) ==
    UNION { {<<k, f>> : f \in os[k].m.pending} \cup {<<k, i>> : i \in os[k].images} :
            k \in 1..Len(os) }

(* C12: when scene B is selected while model A is still loading, no
   callback of A that arrives later changes B's pipeline state (_state,
   fan-in counters, expression and motion maps, bound textures) or the
   decodes B waits for, whatever the interleaving of the callbacks. *)
C12_LateCallbacksLeaveActiveModel ==
    [][OrphanCallbackStep => model' = model /\ images' = images]_vars

(* a callback of A has run after the switch while B is still loading *)
C12_Witness ==
    /\ manager.switches = 1
    /\ \E k \in 1..Len(orphans) : orphans[k].late
    /\ model._state \in {WaitLoadExpression, WaitLoadMotion, WaitLoadTexture}
    /\ model.pending # {} \/ images # {}

(* C13: after a scene switch the callbacks of the dropped model are inert:
   they add no record to the shared texture cache, create no GPU texture
   on the shared context and issue no further fetch or image decode. *)
C13_OrphanCallbacksInert ==
    [][OrphanCallbackStep =>
          /\ _textures' = _textures
          /\ glTextures' = glTextures
          /\ Len(orphans') = Len(orphans) =>
                 OrphanRequests(orphans') \subseteq OrphanRequests(orphans)]_vars

(* C14: a request of A that is never answered stalls only A.  Whatever A
   still waits for, B is Ready as soon as every request of B has been
   answered with a usable response, and the loop of run() has re-armed
   itself after every frame. *)
C14_StalledModelStallsOnlyItself ==
    /\ manager.running
    /\ (manager.switches >= 1 /\ Quiescent /\ AllSucceeded)
           => model._state = CompleteSetup

(* A has had no answer since the switch; B is Ready and has been drawn *)
C14_Witness ==
    /\ manager.switches = 1
    /\ Len(orphans) = 1
    /\ ~orphans[1].late
    /\ orphans[1].m.pending # {}
    /\ model._state = CompleteSetup
    /\ manager.running
    /\ manager.drawn

(***************************************************************************)
(* The texture cache (CacheSpec).  A request and the call of its callback  *)
(* belong to one cache lifetime when release() was not called in between.  *)
(***************************************************************************)
Requested(d) == history.requests[d.req]

SameLifetime(d) == Requested(d).epoch = d.epoch

(* earlier requests for the key of request number req *)
EarlierRequests(req) ==
    { j \in 1..(req - 1) :
        /\ history.requests[j].fileName = history.requests[req].fileName
        /\ history.requests[j].usePremultiply = history.requests[req].usePremultiply }

Handles(t) == { t[k].id : k \in 1..Len(t) }

(* C15: the cache never holds two records with the same (fileName,
   usePremultiply) key, whatever the interleaving of requests and decodes,
   two requests for a key before its first decode included. *)
C15_OneRecordPerKey ==
    \A i, j \in 1..Len(_textures) :
        SameKey(_textures[i], _textures[j].fileName, _textures[j].usePremultply)
            => i = j

(* C16: a request issues one new decode and touches neither the cache nor
   the GL context.  When its decode completes, a request whose key was in
   the cache (hit) adds no record and creates no texture, and its callback
   receives a record the cache held for the key at the request, handle and
   width as they were; a request whose key was not in the cache (miss)
   appends exactly one record of that key with a handle created in this
   step, and its callback receives that record. *)
C16_HitReusesMissInserts ==
    [][/\ RequestStep =>
             /\ Cardinality(images') = Cardinality(images) + 1
             /\ _textures' = _textures
             /\ glTextures' = glTextures
       /\ (DeliveryStep /\ Requested(Delivered).epoch = Delivered.epoch) =>
             IF Requested(Delivered).present # {}
             THEN /\ _textures' = _textures
                  /\ glTextures' = glTextures
                  /\ Delivered.info \in Requested(Delivered).present
             ELSE /\ _textures' = Append(_textures, Delivered.info)
                  /\ glTextures' = glTextures + 1
                  /\ Delivered.info.id = glTextures'
                  /\ Delivered.info.id \notin
                         Handles(history.created) \cup Handles(_textures)
                  /\ SameKey(Delivered.info, Requested(Delivered).fileName,
                             Requested(Delivered).usePremultiply)]_vars

(* a miss has put one record in the cache and a later request for the key
   has hit it: its callback received that record, and the cache and the GL
   context still hold one record and one texture *)
C16_Witness ==
    \E i, j \in 1..Len(history.delivered) :
        /\ history.delivered[i].route = "miss"
        /\ history.delivered[j].route = "hit"
        /\ SameLifetime(history.delivered[j])
        /\ history.delivered[j].info = history.delivered[i].info
        /\ Len(_textures) = 1
        /\ glTextures = 1

(* C17: every request issues a decode of its own, and the callback of the
   second request for a key receives a record whose handle is the one
   created last for that key, whether the second request was made before
   or after the first decode completed and whichever decode completed
   first. *)
C17_SecondRequestGetsLatestHandle ==
    /\ Cardinality(images) + Len(history.delivered) + history.rejected["texture"]
          = Len(history.requests)
    /\ \A k \in 1..Len(history.delivered) :
          LET d == history.delivered[k]
          IN  (Cardinality(EarlierRequests(d.req)) = 1 /\ SameLifetime(d))
                  => /\ d.info # Undefined
                     /\ d.info.id = d.latest

(* both requests missed, both decodes completed, and the second request's
   callback received the second handle *)
C17_Witness ==
    \E k \in 1..Len(history.delivered) :
        LET d == history.delivered[k]
        IN  /\ d.req = 2
            /\ EarlierRequests(2) = {1}
            /\ d.route = "miss"
            /\ Len(history.created) = 2
            /\ d.info.id = 2

(* C18: release() leaves the cache empty and passes every handle the cache
   held to deleteTexture, no handle ever twice; a request made after
   release() for a key the cache held before finds the cache without it
   and is a miss: its decode creates a new texture and appends a new
   record, which the callback receives. *)
C18_ReleaseEmptiesCache ==
    /\ [](\A i, j \in 1..Len(history.deleted) :
              history.deleted[i] = history.deleted[j] => i = j)
    /\ [][ReleaseStep =>
              /\ _textures' = <<>>
              /\ history.deleted' =
                     history.deleted \o [k \in 1..Len(_textures) |-> _textures[k].id]
              /\ \A r \in {history.requests[k] : k \in 1..Len(history.requests)} :
                     RecordsOf(_textures', r) = {}]_vars
    /\ [][(/\ DeliveryStep
            /\ Requested(Delivered).epoch = Delivered.epoch
            /\ Delivered.epoch >= 1
            /\ Requested(Delivered).present = {}) =>
              /\ Delivered.route = "miss"
              /\ Delivered.info.id \notin Handles(history.created)
              /\ _textures' = Append(_textures, Delivered.info)]_vars

(* a key was cached, release() deleted its handle, and a request for the
   key made afterwards got a record with a new handle, now in the cache *)
C18_Witness ==
    \E k \in 1..Len(history.delivered) :
        LET d == history.delivered[k]
        IN  /\ Requested(d).epoch = 1
            /\ d.route = "miss"
            /\ \E c \in 1..Len(history.created) :
                  /\ SameKey(history.created[c], Requested(d).fileName,
                             Requested(d).usePremultiply)
                  /\ history.created[c].id \in
                         {history.deleted[j] : j \in 1..Len(history.deleted)}
            /\ d.info.id \notin {history.deleted[j] : j \in 1..Len(history.deleted)}
            /\ d.info \in {_textures[j] : j \in 1..Len(_textures)}

(***************************************************************************)
(* Clips (WavSpec).                                                        *)
(***************************************************************************)
(* the shape is of a buffer that fails validation: a wrong signature, a
   format code other than 1, or no complete 'data' signature in the buffer *)
FailsValidation(shape) ==
    \/ shape.sig # "none"
    \/ shape.format # 1
    \/ ~shape.data.present
    \/ shape.cut # NoCut /\ shape.cut < 40

(* C19: loadWavFile returns for every buffer, and its promise resolves to
   true or false: there is no buffer, whatever its chunk sizes and channel
   count, on which the call runs for ever. *)
C19_LoadWavFileTerminates == wav.h.result \in {"pending", "true", "false"}

(* C20: once loadWavFile has been given a buffer that fails validation, it
   has resolved to false and _pcmData is null. *)
C20_InvalidBufferResolvesFalse ==
    (wav.h.result # "pending" /\ FailsValidation(wav.shape))
        => /\ wav.h.result = "false"
           /\ wav.h._pcmData = NoPcmData

(***************************************************************************)
(* The envelope (ClipSpec).                                                *)
(***************************************************************************)
(* every sample the handler holds is 0 *)
Silent(h) ==
    /\ ~h._pcmData.null
    /\ \A c \in 1..Len(h._pcmData.channels) :
          \A i \in 1..Len(h._pcmData.channels[c]) : h._pcmData.channels[c][i] = 0

(* the only clip started so far has been parsed with result true *)
OnlyClipParsed == wav.clips = 1 /\ wav.settled = {<<1, "true">>}

(* C21: while the handler holds a silent clip that loadWavFile parsed with
   result true, getRms() is 0 after every update, also after an update that
   does not advance the sample offset. *)
C21_SilentClipEnvelopeIsZero ==
    (OnlyClipParsed /\ Silent(wav.h) /\ wav.returned # "none")
        => getRms(wav.h) = "0"

(* C22: once an update has seen _sampleOffset at _samplesPerChannel, every
   update returns false and leaves the envelope at 0, until the next
   start(). *)
C22_EndedClipStaysSilent ==
    [][(wav.ended /\ wav'.ticks = wav.ticks + 1)
           => (wav'.returned = "false" /\ getRms(wav'.h) = "0")]_vars

(* C23: when the load of the only clip started has resolved to false, every
   update returns false and getRms() is 0. *)
C23_FailedLoadKeepsEnvelopeZero ==
    (/\ wav.clips = 1
     /\ wav.settled \in {{<<1, "false">>}, {<<1, "rejected">>}}
     /\ wav.returned # "none")
        => (wav.returned = "false" /\ getRms(wav.h) = "0")

(* the shape is of a PCM file with at least one channel whose 'data' chunk
   holds the bytes it declares *)
OtherwiseValid(shape) ==
    /\ ~FailsValidation(shape)
    /\ shape.cut = NoCut
    /\ shape.channels >= 1
    /\ shape.junk \in {NoChunk, Chunk(0, 0), Chunk(4, 4)}
    /\ shape.data.size = shape.data.payload

(* C24: a buffer with valid headers and a valid 'data' chunk whose
   bitsPerSample is not 8, 16 or 24 is parsed with result true, and every
   sample decoded from it is 0. *)
C24_OtherWidthsDecodeToZero ==
    (wav.arrived /\ OtherwiseValid(wav.shape) /\ wav.shape.bits \notin {8, 16, 24})
        => (wav.h.result = "true" /\ Silent(wav.h))

(* the handler holds what loadWavFile leaves for the clip alone *)
HoldsClip(h, shape) ==
    LET alone == parseWavFile(NewWavFileHandler, WavBuffer(shape))
    IN  /\ h._pcmData = alone._pcmData
        /\ h._numberOfChannels = alone._numberOfChannels
        /\ h._bitsPerSample = alone._bitsPerSample
        /\ h._samplingRate = alone._samplingRate
        /\ h._samplesPerChannel = alone._samplesPerChannel

(* C25: when start(A) was followed by start(B) and both loads have been
   parsed with result true, in whichever order, the handler holds the
   samples and the format of B. *)
C25_LastStartedClipIsHeld ==
    (wav.clips = 2 /\ wav.settled = {<<1, "true">>, <<2, "true">>})
        => HoldsClip(wav.h, wav.shape)

(***************************************************************************)
(* Pointer events (PointerSpec) and taps (TapSpec).                        *)
(***************************************************************************)
(* the device position of a page position, and its projection into the
   model's space *)
DevicePoint(pageX, pageY) ==
    [x |-> (pageX - CanvasOffsetLeft) * DevicePixelRatio,
     y |-> (pageY - CanvasOffsetTop) * DevicePixelRatio]
Projection(point) == <<transformViewX(point.x), transformViewY(point.y)>>
Released == DevicePoint(manager.event.pageX, manager.event.pageY)

(* C26: after onPointEnded _captured is false, the drag target the model
   has been given is (0,0), and onTap has been called once, at the
   projection of the point of release; pointer-down does not forward a drag
   target, so a pointer-up right after a pointer-down at the same point has
   forwarded only (0,0) and has tapped at the projection of the anchor. *)
C26_PointerUpZeroesDragAndTapsOnce ==
    /\ manager.event.kind = "began" => manager.forwarded = <<>>
    /\ manager.event.kind = "ended" =>
          /\ ~manager._captured
          /\ manager.forwarded = <<<<0, 0>>>>
          /\ model.drag = <<0, 0>>
          /\ manager.taps = 1
          /\ manager.tapAt = Projection(Released)
    /\ (/\ manager.event.kind = "ended"
        /\ manager.event.prev = "began"
        /\ Released = manager._touchManager)
          => manager.tapAt = Projection(manager._touchManager)

(* a pointer-up right after a pointer-down at the same point, after an
   earlier drag had given the model a target *)
C26_Witness ==
    /\ manager.event.kind = "ended"
    /\ manager.event.prev = "began"
    /\ Released = manager._touchManager
    /\ manager.tapAt = Projection(manager._touchManager)
    /\ manager.tapAt # <<0, 0>>
    /\ model.drag = <<0, 0>>
    /\ model._state = CompleteSetup

(* C27: onPointMoved while captured gives the model the projection of the
   anchor as it was before the call and then moves the anchor to the new
   position; while not captured it changes neither the anchor nor the
   model's drag target. *)
C27_MoveForwardsPreviousAnchor ==
    [][PointMoved =>
         IF manager._captured
         THEN /\ model'.drag = Projection(manager._touchManager)
              /\ manager'.forwarded = <<Projection(manager._touchManager)>>
              /\ manager'._touchManager =
                     DevicePoint(manager'.event.pageX, manager'.event.pageY)
         ELSE /\ manager'._touchManager = manager._touchManager
              /\ manager'.forwarded = <<>>
              /\ model'.drag = model.drag]_vars

(* a move has taken the anchor to another point and given the model the
   projection of the anchor before *)
C27_Witness ==
    /\ manager.event.kind = "moved"
    /\ manager._captured
    /\ manager.forwarded # <<>>
    /\ manager.forwarded # <<Projection(manager._touchManager)>>
    /\ manager.forwarded = <<model.drag>>

(* the part of the model a motion that starts writes *)
MotionState(m) ==
    <<m._reservePriority, m._currentPriority, m.playing, m.pending>>

(* C28 as stated: after a tap that hit the head, a random expression has
   been selected. *)
C28_HeadHitSelectsExpression ==
    history.hits[1] = "true" => history.expressionStarted

(* C28: a tap makes at most one call on the model.  If the head is hit it
   calls setRandomExpression, which selects an expression when the model
   holds one, and starts no motion; it starts a random motion of TapBody
   only if the head is not hit and the body is; if neither is hit it
   changes nothing of the model. *)
C28_TapHasOneReaction ==
    [][Tapped =>
         LET head == history'.hits[1]
             body == history'.hits[2]
         IN  /\ Cardinality(history'.reactions) <= 1
             /\ head = "true" =>
                   /\ history'.reactions = {"setRandomExpression"}
                   /\ model._expressions # {} => history'.expressionStarted
                   /\ MotionState(model') = MotionState(model)
                   /\ history'.earlyStarts = history.earlyStarts
                   /\ history'.earlyVoices = history.earlyVoices
             /\ ("startRandomMotion" \in history'.reactions
                 \/ MotionState(model') # MotionState(model))
                   => (head = "false" /\ body = "true")
             /\ (head # "true" /\ body # "true") =>
                   /\ history'.reactions = {}
                   /\ model' = model
                   /\ images' = images
                   /\ history'.expressionStarted = history.expressionStarted]_vars

(* a tap on the head of a model with an expression has selected it, and
   the motion state is the one of a model no motion was started on *)
C28_Witness ==
    /\ history.hits = <<"true", "none">>
    /\ history.reactions = {"setRandomExpression"}
    /\ history.expressionStarted
    /\ ~model.playing
    /\ model._state = CompleteSetup

(* C38: a pointer-up that arrives while _captured is false, that is without
   a pointer-down since the pointer-up before, calls neither onTap nor
   hitTest and starts no reaction. *)
C38_TapOnlyEndsCapturedInteraction ==
    [][PointEnded /\ ~manager._captured =>
          /\ manager'.taps = 0
          /\ history'.hits = history.hits
          /\ history'.reactions = history.reactions
          /\ history'.expressionStarted = history.expressionStarted
      ]_vars

(* C39: a pointer-up that arrives while the model has no parsed manifest
   (it is still in LoadAssets, or its manifest could not be loaded) raises
   no error and changes neither the model nor its requests. *)
C39_TapBeforeManifestIsNoOp ==
    [][Tapped /\ model._modelSetting = NoSetting =>
          /\ history'.tapThrew = history.tapThrew
          /\ history'.unhandled = history.unhandled
          /\ model' = model /\ images' = images
      ]_vars

(* a call of startMotion has been made and has left its record *)
StartMotionCalled == history'.startMotion # history.startMotion

(* C40: a call of startMotion for a key _motions holds no motion for
   returns the invalid handle, leaves the reserved priority at PriorityNone
   and starts neither a motion nor a clip, and the completion of the fetch
   it issued adds nothing to _motions; a clip is started only by a call
   that hands a motion _motions held to startMotionPriority. *)
C40_UnmaterializedMotionStartsNothing ==
    /\ [](LET last == history.startMotion
          IN  /\ "fetchAsset" \in last.calls =>
                    /\ ~last.materialized /\ last.returned = "invalid"
                    /\ last.calls = {"fetchAsset", "setReservePriority"}
              /\ "start" \in last.calls =>
                    /\ last.materialized /\ last.returned = "handle"
                    /\ "startMotionPriority" \in last.calls)
    /\ [][(StartMotionCalled /\ "fetchAsset" \in history'.startMotion.calls) =>
              /\ model'._reservePriority = PriorityNone
              /\ model'._currentPriority = model._currentPriority
              /\ model'.playing = model.playing
              /\ model'._motions = model._motions
              /\ history'.earlyVoices = history.earlyVoices
              /\ history'.earlyStarts = history.earlyStarts
         ]_vars
    /\ [][OnDemandLoaded =>
              /\ model'._motions = model._motions
              /\ model'.playing = model.playing
              /\ model'._reservePriority = model._reservePriority
         ]_vars

(* the model is ready without the motion of the body tap, whose file
   could not be used; a tap on the body has asked for it, and the fetch
   has completed; the motion names a clip *)
C40_Witness ==
    /\ model._state = CompleteSetup
    /\ manifest.motionSound # ""
    /\ history.startMotion.calls = {"fetchAsset", "setReservePriority"}
    /\ history.reactions = {"startRandomMotion"}
    /\ MotionName(MotionGroupTapBody, 0) \notin model._motions
    /\ ~InFlight(model, {"onDemand"})
    /\ ~model.playing

(***************************************************************************)
(* Scene changes (SceneSpec).                                              *)
(***************************************************************************)
(* a model nothing has been loaded into *)
Fresh(m) ==
    /\ m._state = LoadAssets
    /\ m._modelSetting = NoSetting
    /\ m._expressionCount = 0 /\ m._textureCount = 0
    /\ m._motionCount = 0 /\ m._allMotionCount = 0
    /\ m._motions = {} /\ m._expressions = {} /\ m.boundTextures = {}
    /\ ~m._model /\ ~m._modelMatrix /\ ~m.playing
    /\ m.drag = <<0, 0>>

(* C29: the manager holds one model at all times, and it is the model of
   scene _sceneIndex; every changeScene and nextScene leaves a model
   nothing has been loaded into, and nextScene goes from scene i to scene
   (i + 1) mod ModelDirSize. *)
C29_OneFreshModelPerScene ==
    /\ [](/\ manager._models = 1
          /\ manager._sceneIndex \in 0..(ModelDirSize - 1)
          /\ model._modelHomeDir = ModelPath(manager._sceneIndex))
    /\ [][/\ manager'.switches # manager.switches =>
                (Fresh(model') /\ history' = NoHistory)
          /\ NextScene =>
                manager'._sceneIndex = (manager._sceneIndex + 1) % ModelDirSize]_vars

(* the manager has gone to another scene from a model that had nothing in
   flight, and holds the one model of that scene, with nothing loaded *)
C29_Witness ==
    /\ manager.switches = 1
    /\ manager._sceneIndex # 0
    /\ manager._models = 1
    /\ orphans = <<>>
    /\ Fresh(model)
    /\ model._modelHomeDir = ModelPath(manager._sceneIndex)

(***************************************************************************)
(* No graphics context (NoContextSpec).                                    *)
(***************************************************************************)
(* C30: when initialize has returned false for want of a graphics context,
   the manager never holds a model, no fetch and no picture is ever
   requested, and the loop never runs nor draws. *)
C30_NoContextNoPipeline ==
    /\ manager._models = 0
    /\ model.pending = {} /\ images = {} /\ orphans = <<>>
    /\ model._state = LoadAssets /\ model._modelSetting = NoSetting
    /\ ~manager.running /\ ~manager.drawn

(***************************************************************************)
(* The asset tables (AssetSpec).                                           *)
(***************************************************************************)
(* C31: getAssetUrl returns the URL of the table for a path that has an
   entry, and the path itself, with a warning, for any other path;
   getAssetRaw returns null exactly when the path has no raw entry. *)
C31_LoaderIsTotal ==
    LET call == assets.call
        key == assetPath(call.path)
    IN  /\ call.kind = "url" =>
              IF key \in DOMAIN assets.modelFiles
              THEN call.returned = assets.modelFiles[key] /\ ~call.warned
              ELSE call.returned = call.path /\ call.warned
        /\ call.kind = "raw" =>
              (call.isNull <=> key \notin DOMAIN assets.rawFiles)

(***************************************************************************)
(* The order of the stages (Spec).                                         *)
(***************************************************************************)
(* C32: within one pipeline the rig binary is fetched only once the
   manifest is parsed; physics, pose and user data only once the last
   expression completion has arrived; motions only once the user-data stage
   has resolved; and a texture decode is requested only after the last
   motion completion. *)
C32_StagesAreSequential ==
    [][ /\ Issues({"model"}) =>
              /\ model'._modelSetting # NoSetting
              /\ ~InFlight(model', {"manifest"})
        /\ Issues({"physics", "pose", "userData"}) =>
              /\ ~InFlight(model', {"manifest", "model", "expression"})
              /\ model'._expressionCount >= E
        /\ Issues({"motion"}) =>
              /\ ~InFlight(model', {"manifest", "model", "expression",
                                    "physics", "pose", "userData"})
              /\ model'._state >= LoadMotion
        /\ images' \ images # {} =>
              /\ ~InFlight(model', {"manifest", "model", "expression",
                                    "physics", "pose", "userData", "motion"})
              /\ model'._motionCount >= model'._allMotionCount
      ]_vars

(* a pipeline that went through every stage, two expressions and two
   motions included, and has requested its texture decodes *)
C32_Witness ==
    /\ E = 2 /\ M = 2 /\ T >= 1
    /\ manifest.physicsFileName # "" /\ manifest.poseFileName # ""
    /\ manifest.userDataFile # ""
    /\ model._expressionCount = 2
    /\ images # {}

(* C33: after a non-OK response for the rig binary the pipeline enters no
   later stage and issues no expression, physics, pose, user-data, motion
   or texture fetch. *)
C33_RigFailureIsTerminal ==
    history.notOk["model"] > 0 =>
        /\ model._state < LoadExpression
        /\ ~InFlight(model, {"expression", "physics", "pose", "userData",
                             "motion"})
        /\ images = {}

(***************************************************************************)
(* The playback position (ClipSpec).                                       *)
(***************************************************************************)
(* a <= b for doubles, a a number *)
AtMost(a, b) ==
    CASE b.kind = "number"   -> a.n * b.d <= b.n * a.d
      [] b.kind = "Infinity" -> TRUE
      [] OTHER               -> FALSE

(* min(floor(_userTimeSeconds * _samplingRate), _samplesPerChannel) *)
ClampedTarget(h) ==
    LET target == Double((h._userTimeSeconds * h._samplingRate) \div TimeUnit)
    IN  IF AtMost(target, h._samplesPerChannel) THEN target
        ELSE h._samplesPerChannel

(* a frame has called update *)
Ticked == wav'.ticks = wav.ticks + 1

(* C34: between two calls of start, _sampleOffset lies between 0 and the
   samples per channel, no update makes it smaller, and an update that
   gets past its guard leaves it at the clamped target
   min(floor(elapsed seconds * sampling rate), samples per channel). *)
C34_SampleOffsetAdvancesClamped ==
    /\ [](/\ AtMost(Double(0), wav.h._sampleOffset)
          /\ AtMost(wav.h._sampleOffset, wav.h._samplesPerChannel))
    /\ [][Ticked =>
            /\ AtMost(wav.h._sampleOffset, wav'.h._sampleOffset)
            /\ wav'.returned # "false" =>
                  /\ AtMost(wav'.h._sampleOffset, ClampedTarget(wav'.h))
                  /\ AtMost(ClampedTarget(wav'.h), wav'.h._sampleOffset)
         ]_vars

(***************************************************************************)
(* Frames on a model that is not ready (TapSpec).                          *)
(***************************************************************************)
(* C35: a turn of the loop that meets a model whose state is not
   CompleteSetup leaves the model, its requests and the history of engine
   calls as they were, draws nothing and throws nothing. *)
C35_FrameSkipsUnreadyModel ==
    [][Frame /\ model._state # CompleteSetup =>
          /\ model' = model /\ images' = images /\ history' = history
          /\ manager'.drawn = manager.drawn /\ manager'.running
      ]_vars

(* a turn of the loop has run on a model whose rig binary could not be
   loaded and that has nothing left in flight; the loop is still running
   and nothing was drawn *)
C35_Witness ==
    /\ manager.skipped /\ manager.running /\ ~manager.drawn
    /\ history.notOk["model"] > 0 /\ model._state = SetupLayout
    /\ history.unhandled = 0

(***************************************************************************)
(* The ready model (Spec).                                                 *)
(***************************************************************************)
(* C36: a model whose state is CompleteSetup has a renderer that was
   created and started, is initialized and not updating, and has had each
   texture index 0..T-1 of its manifest bound to the renderer exactly once. *)
C36_ReadyModelIsComplete ==
    model._state = CompleteSetup =>
        /\ model.renderer = "started"
        /\ model._initialized /\ ~model._updating
        /\ { b[1] : b \in model.boundTextures } = 0..(T - 1)
        /\ model._textureCount = T

(* a model with two textures, an expression and a motion is ready *)
C36_Witness ==
    /\ model._state = CompleteSetup
    /\ T = 2 /\ E >= 1 /\ M >= 1
    /\ model.boundTextures = {<<0, 1>>, <<1, 2>>} \/ model.boundTextures = {<<0, 2>>, <<1, 1>>}

(***************************************************************************)
(* Decodes that outlive a release (CacheSpec).                             *)
(***************************************************************************)
(* no createTextureFromPngFile call was made since the last release() *)
NoRequestSinceRelease ==
    /\ history.releases > 0
    /\ \A k \in 1..Len(history.requests) :
          history.requests[k].epoch < history.releases

(* C37: after release(), and until a new createTextureFromPngFile call, the
   cache is empty and no texture exists on the GPU that release() did not
   delete, whatever decodes requested before the release complete. *)
C37_ReleasedCacheStaysEmpty ==
    NoRequestSinceRelease =>
        /\ _textures = <<>>
        /\ \A k \in 1..Len(history.created) :
              \E d \in 1..Len(history.deleted) :
                  history.deleted[d] = history.created[k].id
=============================================================================
